---------------------------- MODULE Spec2Model ----------------------------
(***************************************************************************)
(* Statement-independence and bias statistics pipeline of the Science      *)
(* Alignment Scorecard: StatementIndependenceQC, AdvancedBiasAnalytics and *)
(* the aggregation of BiasDetectionIntegration.                            *)
(*                                                                         *)
(* JavaScript numbers are modelled as exact rationals [n, d] extended with *)
(* the IEEE specials: d = 0 and n = 1 is Infinity, n = -1 is -Infinity,    *)
(* n = 0 is NaN.  Scores handed in by the scoring function are integers    *)
(* (createScoringFunction rounds); rounding error of doubles is not        *)
(* modelled.  A missing property reads as Undefined.                       *)
(***************************************************************************)
EXTENDS Integers, Sequences, FiniteSets, TLC

VARIABLES
    pc,              \* position of the operation in progress
    caller,          \* who awaits the operation in progress
    statements,      \* the statements argument
    scoring,         \* the scoringFunction argument
    analysis,        \* the analysis object of runComprehensiveBiasAnalysis
    lastBiasReport,  \* BiasDetectionIntegration.lastBiasReport
    validation,      \* the validation object of validateStatementIndependence
    test,            \* the iterations recorded by the probe in progress
    ran,             \* the steps entered so far, in order
    result,          \* what the operation returned, or how it ended
    isInitialized,   \* BiasDetectionIntegration.isInitialized
    args             \* the arguments of a function called on its own

vars == <<pc, caller, statements, scoring, analysis, lastBiasReport, validation, test, ran,
          result, isInitialized, args>>

\* the variables of StatementIndependenceQC and AdvancedBiasAnalytics calls,
\* and of a function called on its own
qcVars == <<statements, scoring, validation, test, args>>

\* the variables of BiasDetectionIntegration
pipelineVars == <<analysis, lastBiasReport, ran, isInitialized>>

-----------------------------------------------------------------------------
(* Bounds of the model.                                                    *)

NumScoreLevels == 3
MaxTopics == 2
MaxSources == 2

-----------------------------------------------------------------------------
(* JavaScript values.                                                      *)

Undefined == [kind |-> "undefined"]

IsPresent(v) == v.kind # "undefined"

\* String.prototype.toLowerCase, of one letter (or of a word of one letter)
UpperCaseLetters ==
    <<"A", "B", "C", "D", "E", "F", "G", "H", "I", "J", "K", "L", "M",
      "N", "O", "P", "Q", "R", "S", "T", "U", "V", "W", "X", "Y", "Z">>

LowerCaseLetters ==
    <<"a", "b", "c", "d", "e", "f", "g", "h", "i", "j", "k", "l", "m",
      "n", "o", "p", "q", "r", "s", "t", "u", "v", "w", "x", "y", "z">>

toLowerCase(word) ==
    IF \E i \in 1..26 : UpperCaseLetters[i] = word
    THEN LowerCaseLetters[CHOOSE i \in 1..26 : UpperCaseLetters[i] = word]
    ELSE word

Sign(i) == IF i > 0 THEN 1 ELSE IF i < 0 THEN -1 ELSE 0

AbsInt(i) == IF i < 0 THEN -i ELSE i

RECURSIVE GCD(_, _)
GCD(a, b) == IF b = 0 THEN a ELSE GCD(b, a % b)

Norm(n, d) ==
    IF d = 0 THEN [n |-> Sign(n), d |-> 0]
    ELSE LET g == GCD(AbsInt(n), d) IN [n |-> n \div g, d |-> d \div g]

Q(i) == [n |-> i, d |-> 1]
NaN == [n |-> 0, d |-> 0]
Infinity == [n |-> 1, d |-> 0]
NegInfinity == [n |-> -1, d |-> 0]

IsNaN(a) == a.d = 0 /\ a.n = 0

QAdd(a, b) ==
    IF a.d = 0 /\ b.d = 0
    THEN (IF a.n = b.n THEN a ELSE NaN)
    ELSE Norm(a.n * b.d + b.n * a.d, a.d * b.d)

QNeg(a) == [n |-> -a.n, d |-> a.d]

QSub(a, b) == QAdd(a, QNeg(b))

QMul(a, b) == Norm(a.n * b.n, a.d * b.d)

QDiv(a, b) == Norm(a.n * b.d * (IF b.n < 0 THEN -1 ELSE 1), a.d * AbsInt(b.n))

QAbs(a) == [n |-> AbsInt(a.n), d |-> a.d]

\* a < b, a <= b, a > b as JavaScript compares numbers: false when either is NaN
QLt(a, b) ==
    /\ ~IsNaN(a) /\ ~IsNaN(b)
    /\ IF a.d = 0 \/ b.d = 0
       THEN (IF a.d = 0 /\ b.d = 0 THEN a.n < b.n
             ELSE IF a.d = 0 THEN a.n < 0 ELSE b.n > 0)
       ELSE a.n * b.d < b.n * a.d

QLe(a, b) == ~IsNaN(a) /\ ~IsNaN(b) /\ (a = b \/ QLt(a, b))

QGt(a, b) == QLt(b, a)

QGe(a, b) == QLe(b, a)

\* Math.max(a, b): NaN if either is NaN
QMax(a, b) == IF IsNaN(a) \/ IsNaN(b) THEN NaN ELSE IF QLt(a, b) THEN b ELSE a

QMin(a, b) == IF IsNaN(a) \/ IsNaN(b) THEN NaN ELSE IF QLt(b, a) THEN b ELSE a

\* Math.max(...values): -Infinity for no arguments
RECURSIVE MathMax(_)
MathMax(values) ==
    IF values = <<>> THEN NegInfinity
    ELSE QMax(Head(values), MathMax(Tail(values)))

RECURSIVE MathMin(_)
MathMin(values) ==
    IF values = <<>> THEN Infinity
    ELSE QMin(Head(values), MathMin(Tail(values)))

\* values.reduce((a, b) => a + b, 0)
RECURSIVE ReduceSum(_)
ReduceSum(values) ==
    IF values = <<>> THEN Q(0)
    ELSE QAdd(ReduceSum(SubSeq(values, 1, Len(values) - 1)), values[Len(values)])

RECURSIVE SeqsUpTo(_, _)
SeqsUpTo(S, n) ==
    IF n = 0 THEN {<<>>}
    ELSE LET shorter == SeqsUpTo(S, n - 1)
         IN  shorter \cup {Append(s, x) : s \in {t \in shorter : Len(t) = n - 1}, x \in S}

-----------------------------------------------------------------------------
(* BiasDetectionIntegration: aggregation.                                  *)
(* A test result is Undefined or a record of the fields the aggregation    *)
(* reads:                                                                  *)
(*   controlPanelResults    [overallBiasScore]     (summary.overallBiasScore)*)
(*   crossValidationResults [biasLikelihood]       (summary.biasLikelihood) *)
(*   partyBiasAnalysis      [error, partyComparison], a sequence over the  *)
(*                          topics of [scoreDifference, significant]       *)
(*   sourceBiasAnalysis     [totalSources, suspiciousSources] (the counts) *)
(*   independenceValidation [overallIndependenceScore, criticalIssues]     *)

TestNames == {"controlPanelResults", "crossValidationResults", "partyBiasAnalysis",
              "sourceBiasAnalysis", "temporalBiasAnalysis", "semanticBiasAnalysis",
              "independenceValidation"}

NoTests == [t \in TestNames |-> Undefined]

EmptyObject == [kind |-> "object"]

\* the analysis object as runComprehensiveBiasAnalysis creates it
NewAnalysis ==
    [kind |-> "analysis", tests |-> NoTests, overallAssessment |-> EmptyObject,
     recommendations |-> <<>>, error |-> Undefined]

\* the weights of generateOverallAssessment, in hundredths
weights == [controlPanel |-> 25, crossValidation |-> 20, partyBias |-> 20,
            sourceBias |-> 15, independence |-> 20]

RECURSIVE PartyPenalty(_)
PartyPenalty(partyComparison) ==
    IF partyComparison = <<>> THEN 0
    ELSE LET comparison == Head(partyComparison)
         IN  (IF /\ comparison.scoreDifference.n # 0
                 /\ QGt(QAbs(comparison.scoreDifference), Q(10))
              THEN 20 ELSE 0)
             + (IF comparison.significant THEN 15 ELSE 0)
             + PartyPenalty(Tail(partyComparison))

calculatePartyBiasScore(partyBiasAnalysis) ==
    LET totalScore == 100 - PartyPenalty(partyBiasAnalysis.partyComparison)
    IN  Q(IF totalScore < 0 THEN 0 ELSE totalScore)

calculateSourceBiasScore(sourceBiasAnalysis) ==
    IF sourceBiasAnalysis.totalSources = 0 THEN Q(100)
    ELSE QMul(QDiv(Q(sourceBiasAnalysis.totalSources - sourceBiasAnalysis.suspiciousSources),
                   Q(sourceBiasAnalysis.totalSources)),
              Q(100))

\* (the breakpoints compared with > instead of >=)
RatingAboveBreakpoints(score) ==
    IF QGt(score, Q(90)) THEN "Excellent - Minimal bias detected"
    ELSE IF QGt(score, Q(80)) THEN "Good - Minor bias concerns"
    ELSE IF QGt(score, Q(70)) THEN "Fair - Moderate bias issues"
    ELSE IF QGt(score, Q(60)) THEN "Poor - Significant bias problems"
    ELSE "Critical - Severe bias issues require immediate attention"

\* BiasDetectionIntegration.getBiasRating
getBiasRating(score) ==
    IF QGe(score, Q(90)) THEN "Excellent - Minimal bias detected"
    ELSE IF QGe(score, Q(80)) THEN "Good - Minor bias concerns"
    ELSE IF QGe(score, Q(70)) THEN "Fair - Moderate bias issues"
    ELSE IF QGe(score, Q(60)) THEN "Poor - Significant bias problems"
    ELSE "Critical - Severe bias issues require immediate attention"

\* BiasDetectionSystem.getBiasRating
BiasDetectionSystem_getBiasRating(score) ==
    IF QGe(score, Q(90)) THEN "Excellent - Minimal bias detected"
    ELSE IF QGe(score, Q(80)) THEN "Good - Some minor bias concerns"
    ELSE IF QGe(score, Q(70)) THEN "Fair - Moderate bias issues identified"
    ELSE IF QGe(score, Q(60)) THEN "Poor - Significant bias problems"
    ELSE "Critical - Severe bias issues require immediate attention"

PartyBiasRan(t) == IsPresent(t.partyBiasAnalysis) /\ ~t.partyBiasAnalysis.error

calculateConfidenceLevel(t) ==
    LET c1 == IF IsPresent(t.controlPanelResults) THEN 1 ELSE 0
        c2 == IF IsPresent(t.crossValidationResults) THEN 1 ELSE 0
        c3 == IF IsPresent(t.independenceValidation) THEN 1 ELSE 0
        c4 == IF PartyBiasRan(t) THEN 1 ELSE 0
        factors == c1 + c2 + c3 + c4
    IN  IF factors > 0 THEN QDiv(Q(25 * factors), Q(factors)) ELSE Q(0)

\* (mutation of Accumulate: an input that is missing still adds its weight)
AccumulateFullWeight(acc, present, score, weight) ==
    [weightedSum |-> IF present THEN QAdd(acc.weightedSum, QMul(score, Q(weight)))
                     ELSE acc.weightedSum,
     totalWeight |-> acc.totalWeight + weight]

\* weightedSum and totalWeight after one "if (tests.x) { ... }" block
Accumulate(acc, present, score, weight) ==
    IF present
    THEN [weightedSum |-> QAdd(acc.weightedSum, QMul(score, Q(weight))),
          totalWeight |-> acc.totalWeight + weight]
    ELSE acc

generateOverallAssessment(t) ==
    LET a0 == [weightedSum |-> Q(0), totalWeight |-> 0]
        hasControl == IsPresent(t.controlPanelResults)
        controlScore == IF hasControl THEN t.controlPanelResults.overallBiasScore ELSE NaN
        a1 == Accumulate(a0, hasControl, controlScore, weights.controlPanel)
        hasCross == IsPresent(t.crossValidationResults)
        crossScore == IF hasCross
                      THEN QSub(Q(100), t.crossValidationResults.biasLikelihood) ELSE NaN
        a2 == Accumulate(a1, hasCross, crossScore, weights.crossValidation)
        hasParty == PartyBiasRan(t)
        partyScore == IF hasParty THEN calculatePartyBiasScore(t.partyBiasAnalysis) ELSE NaN
        a3 == Accumulate(a2, hasParty, partyScore, weights.partyBias)
        hasSource == IsPresent(t.sourceBiasAnalysis)
        sourceScore == IF hasSource THEN calculateSourceBiasScore(t.sourceBiasAnalysis) ELSE NaN
        a4 == Accumulate(a3, hasSource, sourceScore, weights.sourceBias)
        hasIndep == IsPresent(t.independenceValidation)
        independenceScore == IF hasIndep
                             THEN t.independenceValidation.overallIndependenceScore ELSE NaN
        a5 == Accumulate(a4, hasIndep, independenceScore, weights.independence)
        overallBiasScore == IF a5.totalWeight > 0
                            THEN QDiv(a5.weightedSum, Q(a5.totalWeight)) ELSE Q(0)
    IN  [kind |-> "assessment",
         overallBiasScore |-> overallBiasScore,
         rating |-> getBiasRating(overallBiasScore),
         keyFindings |->
             (IF hasControl /\ QLt(controlScore, Q(80)) THEN <<"control_panel">> ELSE <<>>)
             \o (IF hasCross /\ QLt(crossScore, Q(80)) THEN <<"cross_validation">> ELSE <<>>)
             \o (IF hasParty /\ QLt(partyScore, Q(80)) THEN <<"party_bias">> ELSE <<>>)
             \o (IF hasSource /\ t.sourceBiasAnalysis.suspiciousSources > 0
                 THEN <<"source_bias">> ELSE <<>>)
             \o (IF hasIndep /\ QLt(independenceScore, Q(80))
                 THEN <<"independence">> ELSE <<>>),
         criticalIssues |->
             (IF hasIndep /\ QLt(independenceScore, Q(80))
              THEN t.independenceValidation.criticalIssues ELSE <<>>),
         confidence |-> calculateConfidenceLevel(t)]

\* the recommendations, each [priority, category], in the order of the rules
generateComprehensiveRecommendations(t) ==
    (IF /\ IsPresent(t.controlPanelResults)
        /\ QLt(t.controlPanelResults.overallBiasScore, Q(80))
     THEN <<[priority |-> "high", category |-> "control_panel"]>> ELSE <<>>)
    \o (IF /\ IsPresent(t.crossValidationResults)
           /\ QGt(t.crossValidationResults.biasLikelihood, Q(20))
        THEN <<[priority |-> "high", category |-> "cross_validation"]>> ELSE <<>>)
    \o (IF /\ IsPresent(t.partyBiasAnalysis)
           /\ QLt(calculatePartyBiasScore(t.partyBiasAnalysis), Q(70))
        THEN <<[priority |-> "high", category |-> "party_bias"]>> ELSE <<>>)
    \o (IF /\ IsPresent(t.sourceBiasAnalysis)
           /\ t.sourceBiasAnalysis.suspiciousSources > 0
        THEN <<[priority |-> "medium", category |-> "source_bias"]>> ELSE <<>>)
    \o (IF /\ IsPresent(t.independenceValidation)
           /\ QLt(t.independenceValidation.overallIndependenceScore, Q(80))
        THEN <<[priority |-> "high", category |-> "independence"]>> ELSE <<>>)

-----------------------------------------------------------------------------
(* generateOverallAssessment applied to any tests object.                  *)

ScoreLevels == {Q(100 - 10 * k) : k \in 0..NumScoreLevels}

Comparisons == {[scoreDifference |-> Q(0), significant |-> FALSE],
                [scoreDifference |-> Q(20), significant |-> FALSE],
                [scoreDifference |-> Q(5), significant |-> TRUE]}

IndependenceIssue == [testType |-> "orderingIndependence", severity |-> "critical"]

ControlPanelInputs == {[kind |-> "controlPanel", overallBiasScore |-> s] : s \in ScoreLevels}

CrossValidationInputs ==
    {[kind |-> "crossValidation", biasLikelihood |-> QSub(Q(100), s)] : s \in ScoreLevels}

PartyBiasInputs ==
    {[kind |-> "partyBias", error |-> TRUE, partyComparison |-> <<>>]}
    \cup {[kind |-> "partyBias", error |-> FALSE, partyComparison |-> c] :
              c \in SeqsUpTo(Comparisons, MaxTopics)}

SourceBiasInputs ==
    {r \in {[kind |-> "sourceBias", totalSources |-> n, suspiciousSources |-> k] :
                n \in 0..MaxSources, k \in 0..MaxSources} :
        r.suspiciousSources <= r.totalSources}

IndependenceInputs ==
    {[kind |-> "independence", overallIndependenceScore |-> s, criticalIssues |-> c] :
         s \in ScoreLevels, c \in {<<>>, <<IndependenceIssue>>}}

AssessInit ==
    /\ pc = "assess"
    /\ analysis \in
          {[NewAnalysis EXCEPT !.tests =
                [NoTests EXCEPT !.controlPanelResults = c, !.crossValidationResults = x,
                                !.partyBiasAnalysis = p, !.sourceBiasAnalysis = s,
                                !.independenceValidation = i]] :
              c \in ControlPanelInputs \cup {Undefined},
              x \in CrossValidationInputs \cup {Undefined},
              p \in PartyBiasInputs \cup {Undefined},
              s \in SourceBiasInputs \cup {Undefined},
              i \in IndependenceInputs \cup {Undefined}}
    /\ caller = "user" /\ statements = <<>> /\ scoring = Undefined
    /\ lastBiasReport = Undefined /\ validation = Undefined /\ test = <<>>
    /\ ran = <<>> /\ result = Undefined
    /\ isInitialized = TRUE /\ args = <<>>

\* analysis.overallAssessment = this.generateOverallAssessment(analysis.tests)
Assess ==
    /\ pc = "assess"
    /\ analysis' = [analysis EXCEPT !.overallAssessment = generateOverallAssessment(analysis.tests)]
    /\ pc' = "assessed"
    /\ UNCHANGED <<caller, lastBiasReport, qcVars, isInitialized, ran, result>>

SpecAssess == AssessInit /\ [][Assess]_vars

(* The sub-score of an aggregation input, and whether the input is there.   *)
InputNames == {"controlPanel", "crossValidation", "partyBias", "sourceBias", "independence"}

InputPresent(t, k) ==
    CASE k = "controlPanel" -> IsPresent(t.controlPanelResults)
      [] k = "crossValidation" -> IsPresent(t.crossValidationResults)
      [] k = "partyBias" -> IsPresent(t.partyBiasAnalysis) /\ ~t.partyBiasAnalysis.error
      [] k = "sourceBias" -> IsPresent(t.sourceBiasAnalysis)
      [] k = "independence" -> IsPresent(t.independenceValidation)

SubScore(t, k) ==
    CASE k = "controlPanel" -> t.controlPanelResults.overallBiasScore
      [] k = "crossValidation" -> QSub(Q(100), t.crossValidationResults.biasLikelihood)
      [] k = "partyBias" -> calculatePartyBiasScore(t.partyBiasAnalysis)
      [] k = "sourceBias" -> calculateSourceBiasScore(t.sourceBiasAnalysis)
      [] k = "independence" -> t.independenceValidation.overallIndependenceScore

StatedWeight(k) ==
    CASE k = "controlPanel" -> 25
      [] k = "crossValidation" -> 20
      [] k = "partyBias" -> 20
      [] k = "sourceBias" -> 15
      [] k = "independence" -> 20

RECURSIVE SumOver(_, _)
SumOver(S, f) ==
    IF S = {} THEN Q(0)
    ELSE LET k == CHOOSE x \in S : TRUE IN QAdd(f[k], SumOver(S \ {k}, f))

WeightedMeanOfPresent(t) ==
    LET present == {k \in InputNames : InputPresent(t, k)}
        products == [k \in present |-> QMul(Q(StatedWeight(k)), SubScore(t, k))]
        presentWeights == [k \in present |-> Q(StatedWeight(k))]
    IN  QDiv(SumOver(present, products), SumOver(present, presentWeights))

\* C1: after generateOverallAssessment, overallBiasScore is the sum of
\* weight * score over the inputs that are present (a party result carrying
\* an error marker counts as not present) divided by the sum of the present
\* weights, with the weights 0.25, 0.20, 0.20, 0.15, 0.20.
C1_WeightedMeanOfPresent ==
    (pc = "assessed" /\ \E k \in InputNames : InputPresent(analysis.tests, k))
        => analysis.overallAssessment.overallBiasScore = WeightedMeanOfPresent(analysis.tests)

\* only controlPanel = 90 and independence = 70 are present: (90*0.25 + 70*0.20) / 0.45
C1_Witness ==
    /\ pc = "assessed"
    /\ {k \in InputNames : InputPresent(analysis.tests, k)} = {"controlPanel", "independence"}
    /\ analysis.tests.controlPanelResults.overallBiasScore = Q(90)
    /\ analysis.tests.independenceValidation.overallIndependenceScore = Q(70)
    /\ analysis.overallAssessment.overallBiasScore = Norm(730, 9)

\* the major test categories that ran: control panel, cross-validation,
\* independence, and party bias without an error marker
MajorCategoriesRan(t) ==
    {k \in {"controlPanel", "crossValidation", "independence", "partyBias"} :
        InputPresent(t, k)}

\* C14: the confidence of the assessment is 100 * (number of the four major
\* test categories that ran) / 4, a value in 0..100: 100 when all four ran,
\* 50 when two of them ran.
C14_ConfidenceIsProportionRan ==
    pc = "assessed"
        => analysis.overallAssessment.confidence
               = Q(25 * Cardinality(MajorCategoriesRan(analysis.tests)))

-----------------------------------------------------------------------------
(* The two getBiasRating implementations, called with one score.           *)

MaxHalfScore == 200

\* the scores rated: 0, 0.5, 1, ... up to MaxHalfScore / 2
RatedScores == {Norm(k, 2) : k \in 0..MaxHalfScore}

RatingInit ==
    /\ pc = "ready"
    /\ caller = "none"
    /\ args \in {<<score>> : score \in RatedScores}
    /\ statements = <<>> /\ scoring = Undefined /\ validation = Undefined /\ test = <<>>
    /\ result = Undefined
    /\ analysis = NewAnalysis /\ lastBiasReport = Undefined /\ ran = <<>>
    /\ isInitialized = FALSE

\* rating: this.getBiasRating(score), in either class
Rate ==
    /\ pc = "ready"
    /\ result' = [kind |-> "ratings",
                  integration |-> getBiasRating(args[1]),
                  system |-> BiasDetectionSystem_getBiasRating(args[1])]
    /\ pc' = "resolved"
    /\ UNCHANGED <<caller, statements, scoring, validation, test, pipelineVars, args>>

SpecRating == RatingInit /\ [][Rate]_vars

\* the tier a rating label names
Tier(label) ==
    CASE label \in {"Excellent - Minimal bias detected"} -> "Excellent"
      [] label \in {"Good - Minor bias concerns", "Good - Some minor bias concerns"} -> "Good"
      [] label \in {"Fair - Moderate bias issues",
                    "Fair - Moderate bias issues identified"} -> "Fair"
      [] label \in {"Poor - Significant bias problems"} -> "Poor"
      [] label \in {"Critical - Severe bias issues require immediate attention"} ->
             "Critical"

\* C15: the rating is Excellent for score >= 90, Good for 80 <= score < 90,
\* Fair for 70 <= score < 80, Poor for 60 <= score < 70 and Critical below
\* 60, and the getBiasRating of BiasDetectionIntegration and the one of
\* BiasDetectionSystem give every score the same tier.
C15_RatingByBreakpoints ==
    pc = "resolved"
        => LET score == args[1]
               tier == Tier(result.integration)
           IN  /\ tier = "Excellent" <=> QGe(score, Q(90))
               /\ tier = "Good" <=> (QGe(score, Q(80)) /\ QLt(score, Q(90)))
               /\ tier = "Fair" <=> (QGe(score, Q(70)) /\ QLt(score, Q(80)))
               /\ tier = "Poor" <=> (QGe(score, Q(60)) /\ QLt(score, Q(70)))
               /\ tier = "Critical" <=> QLt(score, Q(60))
               /\ Tier(result.system) = tier

\* 80 is rated Good by both, in different words
C15_Witness ==
    /\ pc = "resolved"
    /\ args = <<Q(80)>>
    /\ result.integration = "Good - Minor bias concerns"
    /\ result.system = "Good - Some minor bias concerns"

-----------------------------------------------------------------------------
(* BiasDetectionIntegration.createScoringFunction.                         *)
(* A statement is [position, expectedScore, party, quote]; a position or   *)
(* an expectedScore of 0 also stands for a missing one (both are falsy);   *)
(* quote is the set of candidate names the quote includes, or Undefined.   *)
(* args is <<statement, statement, options, Math.random()>>: the function  *)
(* is called with the same options and the same draw on two statements     *)
(* that agree on position and expectedScore.                               *)

\* the values Math.random() is drawn from, in twentieths
RandomTwentieths == {0, 5, 10, 19}

ScoredPositions == {0, 3, 50, 97, 100}

ScoredStatements ==
    [position : ScoredPositions, expectedScore : {0, 80},
     party : {"Republican", "Democratic", "Independent"},
     quote : {Undefined} \cup {[kind |-> "string", names |-> n] :
                                  n \in SUBSET {"Trump", "Biden"}}]

ScoringOptions == [isolated : BOOLEAN, anonymized : BOOLEAN]

\* Math.round of a finite number: the nearest integer, halves upwards
MathRound(x) == Q((2 * x.n + x.d) \div (2 * x.d))

\* statement.quote && statement.quote.includes(name)
QuoteIncludes(statement, name) ==
    statement.quote # Undefined /\ name \in statement.quote.names

\* (!options.isolated || !options.anonymized)
BiasedUnlessBoth(options) == ~options.isolated \/ ~options.anonymized

\* if (!options.isolated && !options.anonymized)
Biased(options) == ~options.isolated /\ ~options.anonymized

\* the function createScoringFunction returns, random being Math.random()
createScoringFunction(statement, options, random) ==
    LET base == IF statement.position # 0 THEN statement.position
                ELSE IF statement.expectedScore # 0 THEN statement.expectedScore
                ELSE 50
        variance == QMul(QSub(random, Norm(1, 2)), Q(10))
        varied == QAdd(Q(base), variance)
        republican == IF Biased(options) /\ statement.party = "Republican"
                      THEN QMul(varied, Norm(98, 100)) ELSE varied
        democratic == IF Biased(options) /\ statement.party = "Democratic"
                      THEN QMul(republican, Norm(102, 100)) ELSE republican
        trump == IF Biased(options) /\ QuoteIncludes(statement, "Trump")
                 THEN QMul(democratic, Norm(95, 100)) ELSE democratic
        biden == IF Biased(options) /\ QuoteIncludes(statement, "Biden")
                 THEN QMul(trump, Norm(105, 100)) ELSE trump
    IN  QMin(Q(100), QMax(Q(0), MathRound(biden)))

ScoringInit ==
    /\ pc = "ready"
    /\ caller = "none"
    /\ args \in UNION {{<<a, b, options, Norm(r, 20)>> :
                           b \in {s \in ScoredStatements :
                                     /\ s.position = a.position
                                     /\ s.expectedScore = a.expectedScore},
                           options \in ScoringOptions, r \in RandomTwentieths} :
                        a \in ScoredStatements}
    /\ statements = <<>> /\ scoring = Undefined /\ validation = Undefined /\ test = <<>>
    /\ result = Undefined
    /\ analysis = NewAnalysis /\ lastBiasReport = Undefined /\ ran = <<>>
    /\ isInitialized = FALSE

\* await scoringFunction(statement, options), for both statements
ScoreBoth ==
    /\ pc = "ready"
    /\ result' = <<createScoringFunction(args[1], args[3], args[4]),
                   createScoringFunction(args[2], args[3], args[4])>>
    /\ pc' = "resolved"
    /\ UNCHANGED <<caller, statements, scoring, validation, test, pipelineVars, args>>

SpecScoring == ScoringInit /\ [][ScoreBoth]_vars

\* a whole number in 0..100
IsScore(x) == x.d = 1 /\ x.n \in 0..100

\* C19: the function built by createScoringFunction returns an integer in
\* 0..100, and with options.isolated or options.anonymized set, two
\* statements that differ only in party and quote get the same score from
\* the same random draw.
C19_ScoreInRangeAndBlindWhenIsolated ==
    pc = "resolved"
        => /\ IsScore(result[1]) /\ IsScore(result[2])
           /\ (/\ args[3].isolated \/ args[3].anonymized
               /\ args[1].position = args[2].position
               /\ args[1].expectedScore = args[2].expectedScore)
                 => result[1] = result[2]

\* an anonymized call scores a Republican statement quoting Trump and a
\* Democratic statement quoting Biden alike
C19_Witness ==
    /\ pc = "resolved"
    /\ args[3] = [isolated |-> FALSE, anonymized |-> TRUE]
    /\ args[1].position = 50 /\ args[2].position = 50
    /\ args[1].expectedScore = args[2].expectedScore
    /\ args[1].party = "Republican" /\ QuoteIncludes(args[1], "Trump")
    /\ args[2].party = "Democratic" /\ QuoteIncludes(args[2], "Biden")
    /\ result[1] = result[2]

-----------------------------------------------------------------------------
(* BiasDetectionIntegration.runComprehensiveBiasAnalysis and its callers.  *)
(* The collaborators (biasDetectionSystem, advancedAnalytics,              *)
(* independenceQC) are fields of the integration object; what each call    *)
(* returns, or that it throws, is an input of the run.                     *)

StepNames == <<"controlPanelResults", "crossValidationResults", "partyBiasAnalysis",
               "sourceBiasAnalysis", "temporalBiasAnalysis", "semanticBiasAnalysis",
               "independenceValidation">>

Thrown == [kind |-> "Error", message |-> "rejected"]

TypeError == [kind |-> "Error", message |-> "TypeError"]

StepResults(name) ==
    CASE name = "controlPanelResults" ->
             {[kind |-> "controlPanel", overallBiasScore |-> s] : s \in {Q(100), Q(50)}}
      [] name = "crossValidationResults" ->
             {[kind |-> "crossValidation", biasLikelihood |-> s] : s \in {Q(0), Q(50)}}
      [] name = "partyBiasAnalysis" ->
             {[kind |-> "partyBias", error |-> FALSE, partyComparison |-> c] :
                 c \in {<<>>, <<[scoreDifference |-> Q(20), significant |-> TRUE]>>}}
      [] name = "sourceBiasAnalysis" ->
             {[kind |-> "sourceBias", totalSources |-> 1, suspiciousSources |-> k] :
                 k \in {0, 1}}
      [] name = "temporalBiasAnalysis" -> {[kind |-> "temporalBias"]}
      [] name = "semanticBiasAnalysis" -> {[kind |-> "semanticBias"]}
      [] name = "independenceValidation" ->
             {[kind |-> "independence", overallIndependenceScore |-> Q(100),
               criticalIssues |-> <<>>],
              [kind |-> "independence", overallIndependenceScore |-> Q(50),
               criticalIssues |-> <<IndependenceIssue>>]}

Init ==
    /\ pc = "ready"
    /\ caller = "user"
    /\ analysis = NewAnalysis
    /\ lastBiasReport = Undefined
    /\ result = Undefined
    /\ ran = <<>>
    /\ isInitialized = FALSE
    /\ statements = <<>> /\ scoring = Undefined /\ validation = Undefined /\ test = <<>>
    /\ args = <<>>

\* what loadCandidateData may give: it rejects, or resolves with the parsed
\* file, which has a candidates property or has none
CandidateDataLoads == {"rejected", "noCandidates", "candidates"}

\* what loadScientificConsensusData may give
ConsensusDataLoads == {"rejected", "loaded"}

\* initialize(): the two loads, setupBiasMonitoring, isInitialized = true,
\* then the object returned, which reads candidateData.candidates; whatever
\* is thrown on the way is caught and answered with success: false
initialize(candidateData, consensusData) ==
    IF candidateData = "rejected" \/ consensusData = "rejected"
    THEN [isInitialized |-> isInitialized,
          returned |-> [kind |-> "initialize", success |-> FALSE]]
    ELSE [isInitialized |-> TRUE,
          returned |-> [kind |-> "initialize", success |-> candidateData = "candidates"]]

Initialize ==
    /\ pc = "ready"
    /\ \E candidateData \in CandidateDataLoads, consensusData \in ConsensusDataLoads :
          /\ isInitialized' = initialize(candidateData, consensusData).isInitialized
          /\ result' = initialize(candidateData, consensusData).returned
    /\ UNCHANGED <<pc, caller, analysis, lastBiasReport, ran, qcVars>>

NotInitialized == [kind |-> "Error", message |-> "Bias detection system not initialized"]

\* runComprehensiveBiasAnalysis is entered: by the user, by generateBiasReport
\* when lastBiasReport is null, or by performQuickBiasCheck, which the timer
\* of setupBiasMonitoring calls
RunAnalysis ==
    /\ pc = "ready"
    /\ \E c \in {"user", "monitor", "report"} :
          /\ c = "report" => ~IsPresent(lastBiasReport)
          /\ c = "monitor" => isInitialized
          /\ caller' = c
    /\ IF isInitialized
       THEN /\ analysis' = NewAnalysis
            /\ ran' = <<>>
            /\ result' = Undefined
            /\ pc' = "try"
       ELSE /\ result' = NotInitialized
            /\ UNCHANGED <<pc, analysis, ran>>
    /\ UNCHANGED <<lastBiasReport, qcVars, isInitialized>>

\* one "analysis.tests.x = await collaborator(...)" of the try block
Step ==
    /\ pc = "try"
    /\ Len(ran) < Len(StepNames)
    /\ LET name == StepNames[Len(ran) + 1]
       IN  /\ ran' = Append(ran, name)
           /\ \E outcome \in StepResults(name) \cup {Thrown} :
                 IF outcome = Thrown
                 THEN /\ analysis' = [analysis EXCEPT !.error = Thrown]
                      /\ pc' = "returned"
                 ELSE /\ analysis' = [analysis EXCEPT !.tests[name] = outcome]
                      /\ pc' = "try"
    /\ UNCHANGED <<caller, lastBiasReport, qcVars, isInitialized, result>>

\* step 5 of the try block: the assessment, the recommendations, lastBiasReport
Complete ==
    /\ pc = "try"
    /\ Len(ran) = Len(StepNames)
    /\ analysis' = [analysis EXCEPT
                       !.overallAssessment = generateOverallAssessment(analysis.tests),
                       !.recommendations = generateComprehensiveRecommendations(analysis.tests)]
    /\ lastBiasReport' = analysis'
    /\ pc' = "returned"
    /\ UNCHANGED <<caller, qcVars, isInitialized, ran, result>>

\* the analysis is handed to the user
Return ==
    /\ pc = "returned" /\ caller = "user"
    /\ result' = [kind |-> "analysis"]
    /\ pc' = "ready"
    /\ UNCHANGED <<caller, analysis, lastBiasReport, qcVars, isInitialized, ran>>

\* analysis.overallAssessment.overallBiasScore, undefined on an empty assessment
ScoreOf(a) ==
    IF a.overallAssessment = EmptyObject THEN Undefined
    ELSE a.overallAssessment.overallBiasScore

\* score < limit, false for undefined
ScoreBelow(score, limit) == score # Undefined /\ QLt(score, Q(limit))

\* (the alert carries every recommendation of the analysis)
AlertWithAllRecommendations(a) ==
    [kind |-> "alert",
     severity |-> IF ScoreBelow(ScoreOf(a), 60) THEN "critical" ELSE "warning",
     score |-> ScoreOf(a),
     issues |-> a.overallAssessment.criticalIssues,
     recommendations |-> a.recommendations]

triggerBiasAlert(a) ==
    [kind |-> "alert",
     severity |-> IF ScoreBelow(ScoreOf(a), 60) THEN "critical" ELSE "warning",
     score |-> ScoreOf(a),
     issues |-> a.overallAssessment.criticalIssues,
     recommendations |-> SelectSeq(a.recommendations, LAMBDA r : r.priority = "high")]

\* performQuickBiasCheck after its await
QuickBiasCheck ==
    /\ pc = "returned" /\ caller = "monitor"
    /\ result' = [kind |-> "quickCheck",
                  alert |-> IF ScoreBelow(ScoreOf(analysis), 70)
                            THEN triggerBiasAlert(analysis) ELSE Undefined]
    /\ pc' = "ready"
    /\ UNCHANGED <<caller, analysis, lastBiasReport, qcVars, isInitialized, ran>>

\* generateHTMLReport and generateMarkdownReport call overallBiasScore.toFixed(1);
\* generateJSONReport is JSON.stringify(analysis)
Render(a, format) ==
    IF format = "json" THEN [kind |-> "report", format |-> format, outcome |-> "rendered"]
    ELSE [kind |-> "report", format |-> format,
          outcome |-> IF ScoreOf(a) # Undefined THEN "rendered" ELSE "TypeError"]

\* generateBiasReport with lastBiasReport set
ReportLast ==
    /\ pc = "ready" /\ IsPresent(lastBiasReport)
    /\ \E format \in {"html", "json", "markdown"} : result' = Render(lastBiasReport, format)
    /\ UNCHANGED <<pc, caller, analysis, lastBiasReport, qcVars, isInitialized, ran>>

\* generateBiasReport after its own run
ReportRun ==
    /\ pc = "returned" /\ caller = "report"
    /\ \E format \in {"html", "json", "markdown"} : result' = Render(analysis, format)
    /\ pc' = "ready"
    /\ UNCHANGED <<caller, analysis, lastBiasReport, qcVars, isInitialized, ran>>

Next ==
    \/ Initialize \/ RunAnalysis \/ Step \/ Complete \/ Return \/ QuickBiasCheck
    \/ ReportLast \/ ReportRun

Spec == Init /\ [][Next]_vars

\* C2: probe-level errors are isolated: when runComprehensiveBiasAnalysis
\* returns, every test step has executed, so a failure of step k never
\* prevented steps k+1.. from executing.
C2_LaterStepsStillRun ==
    pc = "returned" => \A i \in 1..Len(StepNames) : \E j \in 1..Len(ran) : ran[j] = StepNames[i]

\* C3: when a step fails, the returned analysis still carries the overall
\* assessment computed over the tests that produced a result, the failed one
\* being treated as not run.
C3_AssessmentAfterFailure ==
    (pc = "returned" /\ IsPresent(analysis.error))
        => analysis.overallAssessment = generateOverallAssessment(analysis.tests)

\* C4: a failed run never reads as a perfect score to a consumer: the
\* monitoring check does not end as it ends for a score of 100, and report
\* generation renders the failed analysis in every format.
C4_FailureToldFromScore ==
    /\ (result.kind = "quickCheck" /\ IsPresent(analysis.error))
           => result # [kind |-> "quickCheck", alert |-> Undefined]
    /\ (result.kind = "report" /\ caller = "report" /\ IsPresent(analysis.error))
           => result.outcome = "rendered"

\* isInitialized turns true only in an initialize() that answers success
FlagSetOnlyBySuccess ==
    (isInitialized' /\ ~isInitialized)
        => (result'.kind = "initialize" /\ result'.success)

\* an initialize() that answers success: false leaves isInitialized false
FailedInitializeKeepsFlag ==
    (~isInitialized /\ result' # result /\ result'.kind = "initialize" /\ ~result'.success)
        => ~isInitialized'

\* runComprehensiveBiasAnalysis entered while isInitialized is false throws
\* the error and leaves the analysis, the steps and lastBiasReport alone
UninitializedRunRefused ==
    ~isInitialized
        => /\ UNCHANGED <<pc, analysis, ran, lastBiasReport>>
           /\ result'.kind # "initialize"
                 => (result' = NotInitialized /\ UNCHANGED isInitialized)

\* C18: isInitialized is true only after an initialize() call in which both
\* data loads succeeded, a failed initialize() answers success: false and
\* leaves isInitialized false, and runComprehensiveBiasAnalysis called while
\* isInitialized is false throws 'Bias detection system not initialized'
\* without running a step or changing lastBiasReport.
C18_InitializationProtocol ==
    [][FlagSetOnlyBySuccess /\ FailedInitializeKeepsFlag /\ UninitializedRunRefused]_vars

-----------------------------------------------------------------------------
(* Two calls of runComprehensiveBiasAnalysis in progress at once: one made *)
(* by the user (directly, or by generateBiasReport when lastBiasReport is  *)
(* null) and one made by the timer of setupBiasMonitoring.  args maps each *)
(* caller to its call: [pc, entry, analysis, ran], the analysis being the  *)
(* local object of the call; result maps it to what its last call gave.    *)

Runners == {"user", "monitor"}

\* the analysis object of a call, with its executionTime: "0" as created,
\* "elapsed" once Date.now() - startTime is assigned
NewRunAnalysis ==
    [kind |-> "analysis", tests |-> NoTests, overallAssessment |-> EmptyObject,
     recommendations |-> <<>>, error |-> Undefined, executionTime |-> "0"]

IdleRun == [pc |-> "idle", entry |-> "none", analysis |-> NewRunAnalysis, ran |-> <<>>]

\* what a collaborator may resolve with: two results of the control panel,
\* one of every other step
RunOutcomes(name) ==
    IF name = "controlPanelResults" THEN StepResults(name)
    ELSE {CHOOSE outcome \in StepResults(name) : TRUE}

\* (the catch block stores the analysis as lastBiasReport)
StoredInCatch(last, a) == a

\* lastBiasReport after the catch block, which does not assign it
AfterCatch(last, a) == last

RunsInit ==
    /\ pc = "ready"
    /\ caller = "none"
    /\ isInitialized \in BOOLEAN
    /\ lastBiasReport = Undefined
    /\ args = [r \in Runners |-> IdleRun]
    /\ result = [r \in Runners |-> Undefined]
    /\ analysis = NewAnalysis /\ ran = <<>>
    /\ statements = <<>> /\ scoring = Undefined /\ validation = Undefined /\ test = <<>>

\* runComprehensiveBiasAnalysis up to its try block: the guard, the load of
\* the candidate data, Object.values(candidateData.candidates), the analysis
\* object
StartRun ==
    \E r \in Runners :
       /\ args[r].pc \in {"idle", "returned", "rejected"}
       /\ r = "monitor" => isInitialized
       /\ \E entry \in (IF r = "monitor" THEN {"monitor"} ELSE {"user", "report"}),
             candidateData \in CandidateDataLoads :
             /\ entry = "report" => ~IsPresent(lastBiasReport)
             /\ IF ~isInitialized
                THEN /\ args' = [args EXCEPT ![r] = [IdleRun EXCEPT !.pc = "rejected",
                                                                     !.entry = entry]]
                     /\ result' = [result EXCEPT ![r] = NotInitialized]
                ELSE IF candidateData # "candidates"
                THEN /\ args' = [args EXCEPT ![r] = [IdleRun EXCEPT !.pc = "rejected",
                                                                     !.entry = entry]]
                     /\ result' = [result EXCEPT ![r] =
                                      IF candidateData = "rejected" THEN Thrown
                                      ELSE TypeError]
                ELSE /\ args' = [args EXCEPT ![r] = [IdleRun EXCEPT !.pc = "try",
                                                                     !.entry = entry]]
                     /\ result' = [result EXCEPT ![r] = Undefined]
       /\ UNCHANGED <<pc, caller, statements, scoring, validation, test, analysis,
                      lastBiasReport, ran, isInitialized>>

\* one "analysis.tests.x = await collaborator(...)" of a call, or the catch
\* block when the collaborator rejects
RunStep ==
    \E r \in Runners :
       /\ args[r].pc = "try"
       /\ Len(args[r].ran) < Len(StepNames)
       /\ LET name == StepNames[Len(args[r].ran) + 1]
          IN  \E outcome \in RunOutcomes(name) \cup {Thrown} :
                 IF outcome = Thrown
                 THEN LET a == [args[r].analysis EXCEPT !.error = Thrown,
                                                        !.executionTime = "elapsed"]
                      IN  /\ args' = [args EXCEPT ![r].analysis = a,
                                                  ![r].ran = Append(@, name),
                                                  ![r].pc = "returned"]
                          /\ result' = [result EXCEPT ![r] = a]
                          /\ lastBiasReport' = AfterCatch(lastBiasReport, a)
                 ELSE /\ args' = [args EXCEPT ![r].analysis.tests[name] = outcome,
                                              ![r].ran = Append(@, name)]
                      /\ UNCHANGED <<result, lastBiasReport>>
       /\ UNCHANGED <<pc, caller, statements, scoring, validation, test, analysis,
                      ran, isInitialized>>

\* step 5 of a call: the assessment, the recommendations, executionTime,
\* lastBiasReport, return
CompleteRun ==
    \E r \in Runners :
       /\ args[r].pc = "try"
       /\ Len(args[r].ran) = Len(StepNames)
       /\ LET a == [args[r].analysis EXCEPT
                       !.overallAssessment = generateOverallAssessment(args[r].analysis.tests),
                       !.recommendations =
                           generateComprehensiveRecommendations(args[r].analysis.tests),
                       !.executionTime = "elapsed"]
          IN  /\ args' = [args EXCEPT ![r].analysis = a, ![r].pc = "returned"]
              /\ lastBiasReport' = a
              /\ result' = [result EXCEPT ![r] = a]
       /\ UNCHANGED <<pc, caller, statements, scoring, validation, test, analysis,
                      ran, isInitialized>>

RunsNext == StartRun \/ RunStep \/ CompleteRun

SpecRuns == RunsInit /\ [][RunsNext]_vars

\* every step of the analysis has a result, and the assessment, the
\* recommendations and the execution time are set; no error
CompleteAnalysis(a) ==
    /\ \A i \in 1..Len(StepNames) : IsPresent(a.tests[StepNames[i]])
    /\ a.overallAssessment = generateOverallAssessment(a.tests)
    /\ a.recommendations = generateComprehensiveRecommendations(a.tests)
    /\ a.executionTime = "elapsed"
    /\ ~IsPresent(a.error)

\* the call of r has just ended with every step done and no error
Completes(r) ==
    /\ args[r].pc = "try" /\ args'[r].pc = "returned"
    /\ args[r].ran = StepNames
    /\ \A i \in 1..Len(StepNames) : IsPresent(args[r].analysis.tests[StepNames[i]])

\* lastBiasReport changes only when a call completes, to the complete
\* analysis of that call; a call that ends otherwise leaves it as it was
ReplacedOnlyByCompleteRun ==
    /\ lastBiasReport' # lastBiasReport
          => \E r \in Runners :
                /\ Completes(r)
                /\ lastBiasReport' = args'[r].analysis
                /\ lastBiasReport' = result'[r]
                /\ CompleteAnalysis(lastBiasReport')
    /\ \A r \in Runners :
          (args[r].pc = "try" /\ args'[r].pc = "returned" /\ ~Completes(r))
             => lastBiasReport' = lastBiasReport
    /\ \A r \in Runners :
          args'[r].pc = "rejected" /\ args[r] # args'[r] => lastBiasReport' = lastBiasReport

\* a call that ended at a step that threw has returned its analysis, with
\* the error
FailedInTryReturnsError ==
    \A r \in Runners :
       (args[r].pc = "returned" /\ Len(args[r].ran) > 0
        /\ ~IsPresent(args[r].analysis.tests[args[r].ran[Len(args[r].ran)]]))
          => /\ result[r] = args[r].analysis
             /\ IsPresent(result[r].error)

\* a call that ended before its try block has returned no analysis: it
\* rejected
FailedBeforeTryRejects ==
    \A r \in Runners : args[r].pc = "rejected" => result[r].kind = "Error"

\* C26 as stated, for the calls that fail: every call of
\* runComprehensiveBiasAnalysis that ended without completing has returned an
\* analysis with an error field, however the calls of the user and of the
\* timer interleave.
C26_FailedRunReturnsAnalysis ==
    \A r \in Runners :
       (args[r].pc = "rejected"
        \/ (args[r].pc = "returned" /\ ~CompleteAnalysis(args[r].analysis)))
          => /\ result[r].kind = "analysis"
             /\ IsPresent(result[r].error)

\* C26: lastBiasReport is replaced only by a call that completes every step,
\* with the complete analysis; a call in which a step throws returns its
\* analysis with an error field, a call that fails before the first step (not
\* initialized, candidate data not loaded or without candidates) rejects, and
\* both leave lastBiasReport unchanged, however the calls of the user and of
\* the timer interleave.
C26_ReplacedOnlyByCompleteRun ==
    [][ReplacedOnlyByCompleteRun]_vars
    /\ [](FailedInTryReturnsError /\ FailedBeforeTryRejects)

\* the timer's call failed at a step while the user's call was in progress,
\* the user's call completed after it, and lastBiasReport is the analysis of
\* the user's call, replacing an earlier report
C26_Witness ==
    /\ args["monitor"].pc = "returned" /\ IsPresent(args["monitor"].analysis.error)
    /\ args["user"].pc = "returned" /\ CompleteAnalysis(args["user"].analysis)
    /\ lastBiasReport = args["user"].analysis
    /\ lastBiasReport.tests.controlPanelResults.overallBiasScore = Q(50)
    /\ Len(args["monitor"].ran) > 1
    /\ args["monitor"].analysis.tests.controlPanelResults.overallBiasScore = Q(100)

-----------------------------------------------------------------------------
(* StatementIndependenceQC.                                                *)
(* A statement is [id, position, quote]; quote is FALSE when the record    *)
(* carries id and position only, and TRUE when it also carries a quote and *)
(* the candidate, topic and date that the statements of one set share.     *)
(* The scoring function is supplied by the caller; the model draws it from *)
(* ScoringFunctions.                                                       *)

MaxStatements == 2

Iterations == 10

independenceThresholds ==
    [orderVariance |-> 5, priorStatementInfluence |-> 3, contextualBias |-> 8,
     batchProcessingVariance |-> 4, temporalSequenceBias |-> 6]

StatementIds == {"s1", "s2", "s3"}

Positions == {20, 60, 80, 90}

StatementRecords(q) == [id : StatementIds, position : Positions, quote : {q}]

UniqueIds(s) == \A i, j \in 1..Len(s) : s[i].id = s[j].id => i = j

\* the statement sets passed in: up to MaxStatements statements with unique
\* ids, and the pairs of two statements sharing the id s1
StatementSets ==
    UNION {{s \in SeqsUpTo(StatementRecords(q), MaxStatements) : UniqueIds(s)}
           \cup {<<a, b>> : a \in {r \in StatementRecords(q) : r.id = "s1"},
                            b \in {r \in StatementRecords(q) : r.id = "s1"}}
           : q \in BOOLEAN}

ScoringFunctions ==
    {[kind |-> k] : k \in {"position", "byId", "unlessIsolated", "priorCount",
                           "batchSize", "sequencePosition", "rejects"}}

\* an options object as a scoring function reads it: a field the probe did
\* not set reads as not isolated, no prior statements, a batch of one, the
\* first position of the sequence
NoOptions ==
    [isolated |-> FALSE, priorStatements |-> <<>>, batchSize |-> 1, sequencePosition |-> 0]

\* the options of an isolated call, of a call with prior statements, of a
\* call within a batch and of a call at a position of a sequence
IsolatedOptions == [NoOptions EXCEPT !.isolated = TRUE]

PriorOptions(prior) == [NoOptions EXCEPT !.priorStatements = prior]

BatchOptions(size) == [NoOptions EXCEPT !.batchSize = size]

SequenceOptions(i) == [NoOptions EXCEPT !.sequencePosition = i]

\* await scoringFunction(statement, options): the score, or Thrown
Score(f, statement, options) ==
    CASE f.kind = "position" -> Q(statement.position)
      [] f.kind = "byId" ->
             Q(CASE statement.id = "s1" -> 30 [] statement.id = "s2" -> 50 [] OTHER -> 70)
      [] f.kind = "unlessIsolated" ->
             Q(statement.position + (IF options.isolated THEN 0 ELSE 5))
      [] f.kind = "priorCount" ->
             Q(statement.position + 4 * Len(options.priorStatements))
      [] f.kind = "batchSize" ->
             Q(statement.position - 5 * (options.batchSize - 1))
      [] f.kind = "sequencePosition" ->
             Q(statement.position - 7 * options.sequencePosition)
      [] f.kind = "rejects" -> Thrown

HasThrown(values) == \E i \in 1..Len(values) : values[i] = Thrown

calculateMean(values) ==
    IF Len(values) > 0 THEN QDiv(ReduceSum(values), Q(Len(values))) ELSE Q(0)

calculateVariance(values) ==
    IF Len(values) < 2 THEN Q(0)
    ELSE LET mean == calculateMean(values)
             squares == [i \in 1..Len(values) |->
                            QMul(QSub(values[i], mean), QSub(values[i], mean))]
         IN  QDiv(ReduceSum(squares), Q(Len(values)))

\* (100 - (max / threshold) * 100, not clamped at 0)
Unclamped(max, threshold) == QSub(Q(100), QMul(QDiv(max, Q(threshold)), Q(100)))

\* Math.max(0, 100 - (max / threshold) * 100)
IndependenceScore(max, threshold) ==
    QMax(Q(0), QSub(Q(100), QMul(QDiv(max, Q(threshold)), Q(100))))

\* max <= 2 * threshold: the comparison with the threshold doubled
PassedWithinTwice(max, threshold) == QLe(max, Q(2 * threshold))

\* passed: analysis.max... <= this.independenceThresholds...
passed(max, threshold) == QLe(max, Q(threshold))

\* the arrays of indices shuffleArray may return
Shuffles(n) == {p \in [1..n -> 1..n] : \A i, j \in 1..n : p[i] = p[j] => i = j}

\* the array in the shuffled order: the swaps made in the array itself
ShuffledInPlace(array, shuffle) == [k \in 1..Len(array) |-> array[shuffle[k]]]

\* the array passed to shuffleArray once it has returned: the swaps are made
\* in the copy [...array], which is what it returns
AfterShuffle(array, shuffle) == array

\* the scores array of one iteration, in the shuffled order
IterationScores(stmts, f, shuffle) ==
    [k \in 1..Len(stmts) |->
        [statementId |-> stmts[shuffle[k]].id,
         score |-> Score(f, stmts[shuffle[k]], IsolatedOptions)]]

\* scores[0].score: find without its predicate
FindFirstScore(scores, id) == scores[1].score

\* result.scores.find(s => s.statementId === id).score
FindScore(scores, id) ==
    scores[CHOOSE k \in 1..Len(scores) :
              /\ scores[k].statementId = id
              /\ \A j \in 1..(k - 1) : scores[j].statementId # id].score

\* the indices of the statements that introduce a new id, in order
FirstOfId(stmts) ==
    SelectSeq([i \in 1..Len(stmts) |-> i],
              LAMBDA i : \A j \in 1..(i - 1) : stmts[j].id # stmts[i].id)

\* results is the sequence of iterations, each the score found for every
\* statement of stmts (by its id, as line 106 reads it)
analyzeOrderingVariance(results, stmts) ==
    LET threshold == Q(independenceThresholds.orderVariance)
        statementScores(i) == [k \in 1..Len(results) |-> results[k][i]]
        variance(i) == calculateVariance(statementScores(i))
        last(id) == CHOOSE i \in 1..Len(stmts) :
                        stmts[i].id = id /\ \A j \in (i + 1)..Len(stmts) : stmts[j].id # id
        statementVariances ==
            [id \in {stmts[i].id : i \in 1..Len(stmts)} |->
                [scores |-> statementScores(last(id)), variance |-> variance(last(id))]]
        problematic == SelectSeq([i \in 1..Len(stmts) |-> i],
                                 LAMBDA i : QGt(variance(i), threshold))
        firsts == FirstOfId(stmts)
        allVariances == [k \in 1..Len(firsts) |->
                            statementVariances[stmts[firsts[k]].id].variance]
    IN  IF \E k \in 1..Len(problematic) : ~stmts[problematic[k]].quote
        THEN TypeError
        ELSE [kind |-> "analysis",
              statementVariances |-> statementVariances,
              maxVariance |-> MathMax(allVariances),
              averageVariance |-> calculateMean(allVariances),
              problematicStatements |->
                  [k \in 1..Len(problematic) |->
                      [id |-> stmts[problematic[k]].id,
                       variance |-> variance(problematic[k]),
                       severity |-> IF QGt(variance(problematic[k]),
                                           QMul(threshold, Q(2)))
                                    THEN "high" ELSE "medium"]]]

\* what testOrderingIndependence returns once its iterations are recorded
OrderingResult(results, stmts) ==
    LET a == analyzeOrderingVariance(results, stmts)
    IN  IF a = TypeError THEN TypeError
        ELSE [kind |-> "probe", testType |-> "ordering_independence",
              analysis |-> a,
              independenceScore |->
                  IndependenceScore(a.maxVariance, independenceThresholds.orderVariance),
              passed |-> passed(a.maxVariance, independenceThresholds.orderVariance)]

\* array.slice(0, 3)
FirstThree(s) == SubSeq(s, 1, IF Len(s) < 3 THEN Len(s) ELSE 3)

\* Math.abs(a + b): the difference with its sign lost
InfluenceSum(a, b) == QAbs(QAdd(a, b))

\* Math.abs(isolatedScore - contextScore)
Influence(a, b) == QAbs(QSub(a, b))

\* the result testPriorStatementInfluence pushes for statements[i]
PriorResult(stmts, f, i) ==
    LET statement == stmts[i]
        positiveContext == FirstThree(SelectSeq(stmts, LAMBDA x : x.position > 80))
        negativeContext == FirstThree(SelectSeq(stmts, LAMBDA x : x.position < 30))
        mixedContext == SubSeq(stmts, IF i - 2 < 1 THEN 1 ELSE i - 2, i - 1)
        isolatedScore == Score(f, statement, IsolatedOptions)
        positiveContextScore == Score(f, statement, PriorOptions(positiveContext))
        negativeContextScore == Score(f, statement, PriorOptions(negativeContext))
        mixedContextScore == Score(f, statement, PriorOptions(mixedContext))
    IN  IF HasThrown(<<isolatedScore, positiveContextScore, negativeContextScore,
                       mixedContextScore>>)
        THEN Thrown
        ELSE [statementId |-> statement.id,
              isolatedScore |-> isolatedScore,
              positiveContextScore |-> positiveContextScore,
              negativeContextScore |-> negativeContextScore,
              mixedContextScore |-> mixedContextScore,
              maxInfluence |->
                  MathMax(<<Influence(isolatedScore, positiveContextScore),
                            Influence(isolatedScore, negativeContextScore),
                            Influence(isolatedScore, mixedContextScore)>>)]

analyzePriorInfluence(results) ==
    LET influences == [k \in 1..Len(results) |-> results[k].maxInfluence]
        problematicStatements ==
            SelectSeq(results,
                      LAMBDA r : QGt(r.maxInfluence,
                                     Q(independenceThresholds.priorStatementInfluence)))
    IN  [kind |-> "analysis",
         maxInfluence |-> MathMax(influences),
         averageInfluence |-> calculateMean(influences),
         problematicCount |-> Len(problematicStatements),
         problematicStatements |->
             [k \in 1..Len(problematicStatements) |->
                 [id |-> problematicStatements[k].statementId,
                  influence |-> problematicStatements[k].maxInfluence]]]

testPriorStatementInfluence(stmts, f) ==
    LET results == [i \in 1..Len(stmts) |-> PriorResult(stmts, f, i)]
        a == analyzePriorInfluence(results)
    IN  IF HasThrown(results) THEN Thrown
        ELSE [kind |-> "probe", testType |-> "prior_statement_influence",
              results |-> results,
              analysis |-> a,
              independenceScore |->
                  IndependenceScore(a.maxInfluence,
                                    independenceThresholds.priorStatementInfluence),
              passed |-> passed(a.maxInfluence,
                                independenceThresholds.priorStatementInfluence)]

\* the scoring calls of the loop, then this.analyzeContextualIndependence(...),
\* a method the class does not define
testContextualIndependence(stmts, f) ==
    IF HasThrown([i \in 1..Len(stmts) |->
                     Score(f, stmts[i], NoOptions)])
    THEN Thrown
    ELSE TypeError

ProbeNames == <<"orderingIndependence", "priorStatementInfluence",
                "contextualIndependence", "batchProcessingIndependence",
                "temporalSequenceIndependence">>

NoProbes == [p \in {ProbeNames[i] : i \in 1..Len(ProbeNames)} |-> Undefined]

\* the validation object as validateStatementIndependence creates it
NewValidation ==
    [kind |-> "validation", independenceTests |-> NoProbes,
     overallIndependenceScore |-> Q(0), criticalIssues |-> <<>>]

\* the probe a public method of StatementIndependenceQC starts with
EntryProbe(method) ==
    CASE method = "validateStatementIndependence" -> "orderingIndependence"
      [] method = "testOrderingIndependence" -> "orderingIndependence"
      [] method = "testPriorStatementInfluence" -> "priorStatementInfluence"
      [] method = "testContextualIndependence" -> "contextualIndependence"
      [] method = "testBatchProcessingIndependence" -> "batchProcessingIndependence"
      [] method = "testTemporalSequenceIndependence" -> "temporalSequenceIndependence"

\* the probe awaited after the named one in validateStatementIndependence
NextProbe(name) ==
    ProbeNames[(CHOOSE i \in 1..Len(ProbeNames) : ProbeNames[i] = name) + 1]

QCInit ==
    /\ pc = "ready"
    /\ caller = "none"
    /\ statements \in StatementSets
    /\ scoring \in ScoringFunctions
    /\ validation = Undefined
    /\ test = <<>>
    /\ result = Undefined
    /\ analysis = NewAnalysis /\ lastBiasReport = Undefined /\ ran = <<>>
    /\ isInitialized = FALSE /\ args = <<>>

\* a method of StatementIndependenceQC is called
CallQC ==
    /\ pc = "ready"
    /\ \E method \in {"validateStatementIndependence", "testOrderingIndependence",
                      "testPriorStatementInfluence", "testContextualIndependence",
                      "testBatchProcessingIndependence",
                      "testTemporalSequenceIndependence"} :
          /\ caller' = method
          /\ validation' = IF method = "validateStatementIndependence"
                           THEN NewValidation ELSE Undefined
          /\ pc' = EntryProbe(method)
    /\ UNCHANGED <<statements, scoring, test, result, pipelineVars, args>>

batchSizes == <<5, 10, 25, 50>>

\* consecutive slices of batchSize statements
createBatches(stmts, batchSize) ==
    [b \in 1..((Len(stmts) + batchSize - 1) \div batchSize) |->
        SubSeq(stmts, (b - 1) * batchSize + 1,
               IF b * batchSize < Len(stmts) THEN b * batchSize ELSE Len(stmts))]

\* batchResults[batchSize]: every batch scored with its own length, the
\* scores pushed in the order of the statements
BatchScores(stmts, f, batchSize) ==
    LET batches == createBatches(stmts, batchSize)
        scores(b) == [k \in 1..Len(batches[b]) |->
                         [id |-> batches[b][k].id,
                          score |-> Score(f, batches[b][k],
                                          BatchOptions(Len(batches[b])))]]
    IN  [i \in 1..Len(stmts) |->
            scores(((i - 1) \div batchSize) + 1)[((i - 1) % batchSize) + 1]]

\* scores.find(s => s.id === id).score
FindById(scores, id) ==
    scores[CHOOSE k \in 1..Len(scores) :
              scores[k].id = id /\ \A j \in 1..(k - 1) : scores[j].id # id].score

\* the variances of one comparison: every base score against the score found
\* under the same id
Variances(base, scores) ==
    [i \in 1..Len(base) |-> QAbs(QSub(base[i].score, FindById(scores, base[i].id)))]

analyzeBatchProcessingVariance(individualScores, batchResults) ==
    LET variances(b) == Variances(individualScores, batchResults[b])
        batchVariances ==
            [b \in 1..Len(batchSizes) |->
                [maxVariance |-> MathMax(variances(b)),
                 averageVariance |-> calculateMean(variances(b))]]
    IN  [kind |-> "analysis",
         batchVariances |-> batchVariances,
         maxBatchVariance |->
             MathMax([b \in 1..Len(batchSizes) |-> batchVariances[b].maxVariance])]

testBatchProcessingIndependence(stmts, f) ==
    LET individualScores ==
            [i \in 1..Len(stmts) |->
                [id |-> stmts[i].id, score |-> Score(f, stmts[i], BatchOptions(1))]]
        batchResults ==
            [b \in 1..Len(batchSizes) |-> BatchScores(stmts, f, batchSizes[b])]
        a == analyzeBatchProcessingVariance(individualScores, batchResults)
    IN  IF \E i \in 1..Len(stmts) : individualScores[i].score = Thrown
        THEN Thrown
        ELSE [kind |-> "probe", testType |-> "batch_processing_independence",
              individualScores |-> individualScores,
              analysis |-> a,
              independenceScore |->
                  IndependenceScore(a.maxBatchVariance,
                                    independenceThresholds.batchProcessingVariance),
              passed |-> passed(a.maxBatchVariance,
                                independenceThresholds.batchProcessingVariance)]

\* the sorted copies of sortingMethods; random is the shuffled copy
sortedMethods == <<"chronological", "reverseChronological", "byCandidate", "byTopic">>

\* sequenceResults[method] for the order the method put the statements in
SequenceScores(stmts, f, order) ==
    [k \in 1..Len(stmts) |->
        [id |-> stmts[order[k]].id,
         score |-> Score(f, stmts[order[k]], SequenceOptions(k - 1))]]

analyzeTemporalSequenceVariance(randomScores, sequenceResults) ==
    LET variances(m) == Variances(randomScores, sequenceResults[m])
        sequenceVariances ==
            [m \in 1..Len(sortedMethods) |->
                [maxVariance |-> MathMax(variances(m)),
                 averageVariance |-> calculateMean(variances(m))]]
    IN  [kind |-> "analysis",
         sequenceVariances |-> sequenceVariances,
         maxSequenceVariance |->
             MathMax([m \in 1..Len(sortedMethods) |-> sequenceVariances[m].maxVariance])]

\* shuffle is the order shuffleArray returned.  The comparators of the sorts
\* run when there are two statements or more: a.candidate.localeCompare is a
\* TypeError on a statement without candidate; on statements that share
\* date, candidate and topic every comparator answers 0 and the stable sort
\* keeps the order of the array
testTemporalSequenceIndependence(stmts, f, shuffle) ==
    LET kept == [i \in 1..Len(stmts) |-> i]
        randomScores == SequenceScores(stmts, f, shuffle)
        sequenceResults ==
            [m \in 1..Len(sortedMethods) |-> SequenceScores(stmts, f, kept)]
        a == analyzeTemporalSequenceVariance(randomScores, sequenceResults)
    IN  IF Len(stmts) >= 2 /\ \E i \in 1..Len(stmts) : ~stmts[i].quote
        THEN TypeError
        ELSE IF \E i \in 1..Len(stmts) : randomScores[i].score = Thrown
        THEN Thrown
        ELSE [kind |-> "probe", testType |-> "temporal_sequence_independence",
              sequenceResults |-> sequenceResults,
              random |-> randomScores,
              analysis |-> a,
              independenceScore |->
                  IndependenceScore(a.maxSequenceVariance,
                                    independenceThresholds.temporalSequenceBias),
              passed |-> passed(a.maxSequenceVariance,
                                independenceThresholds.temporalSequenceBias)]

\* the probe in progress ends with r: an error rejects the call in progress;
\* a result is assigned to validation.independenceTests, or returned
Settle(name, r) ==
    IF r.kind = "Error"
    THEN pc' = "rejected" /\ result' = r /\ UNCHANGED validation
    ELSE IF caller = "validateStatementIndependence"
         THEN /\ validation' = [validation EXCEPT !.independenceTests[name] = r]
              /\ pc' = NextProbe(name)
              /\ UNCHANGED result
         ELSE pc' = "resolved" /\ result' = r /\ UNCHANGED validation

\* one iteration of testOrderingIndependence: shuffle, score, push
OrderingIteration ==
    /\ pc = "orderingIndependence"
    /\ Len(test) < Iterations
    /\ \E shuffle \in Shuffles(Len(statements)) :
          /\ statements' = AfterShuffle(statements, shuffle)
          /\ LET scores == IterationScores(statements, scoring, shuffle)
             IN  IF \E k \in 1..Len(scores) : scores[k].score = Thrown
                 THEN /\ pc' = "rejected" /\ result' = Thrown
                      /\ UNCHANGED test
                 ELSE /\ test' = Append(test, [i \in 1..Len(statements) |->
                                                  FindScore(scores, statements[i].id)])
                      /\ UNCHANGED <<pc, result>>
    /\ UNCHANGED <<caller, scoring, validation, pipelineVars, args>>

\* testOrderingIndependence after its loop
OrderingAnalysis ==
    /\ pc = "orderingIndependence"
    /\ Len(test) = Iterations
    /\ Settle("orderingIndependence", OrderingResult(test, statements))
    /\ UNCHANGED <<caller, statements, scoring, test, pipelineVars, args>>

PriorProbe ==
    /\ pc = "priorStatementInfluence"
    /\ Settle("priorStatementInfluence", testPriorStatementInfluence(statements, scoring))
    /\ UNCHANGED <<caller, statements, scoring, test, pipelineVars, args>>

ContextualProbe ==
    /\ pc = "contextualIndependence"
    /\ Settle("contextualIndependence", testContextualIndependence(statements, scoring))
    /\ UNCHANGED <<caller, statements, scoring, test, pipelineVars, args>>

BatchProbe ==
    /\ pc = "batchProcessingIndependence"
    /\ Settle("batchProcessingIndependence",
              testBatchProcessingIndependence(statements, scoring))
    /\ UNCHANGED <<caller, statements, scoring, test, pipelineVars, args>>

TemporalProbe ==
    /\ pc = "temporalSequenceIndependence"
    /\ \E shuffle \in Shuffles(Len(statements)) :
          /\ Settle("temporalSequenceIndependence",
                    testTemporalSequenceIndependence(statements, scoring, shuffle))
          /\ statements' = AfterShuffle(statements, shuffle)
    /\ UNCHANGED <<caller, scoring, test, pipelineVars, args>>

QCNext ==
    \/ CallQC \/ OrderingIteration \/ OrderingAnalysis \/ PriorProbe
    \/ ContextualProbe \/ BatchProbe \/ TemporalProbe

SpecQC == QCInit /\ [][QCNext]_vars

\* the options a probe may pass with a statement
SomeOptions ==
    {[isolated |-> b, priorStatements |-> prior, batchSize |-> size,
      sequencePosition |-> i] :
        b \in BOOLEAN, prior \in SeqsUpTo(StatementRecords(TRUE), 1),
        size \in 1..2, i \in 0..1}

\* the scoring functions whose result depends only on statement.id
IdOnlyScoring ==
    {f \in ScoringFunctions :
        /\ f.kind # "rejects"
        /\ \A a, b \in StatementRecords(TRUE) \cup StatementRecords(FALSE) :
           \A o1, o2 \in SomeOptions :
              a.id = b.id => Score(f, a, o1) = Score(f, b, o2)}

\* the scoring functions whose result does not depend on options.priorStatements
PriorBlindScoring ==
    {f \in ScoringFunctions :
        /\ f.kind # "rejects"
        /\ \A a \in StatementRecords(TRUE) : \A o1, o2 \in SomeOptions :
              o1.isolated = o2.isolated => Score(f, a, o1) = Score(f, a, o2)}

\* the scoring functions whose result depends on no option
OptionBlindScoring ==
    {f \in ScoringFunctions :
        /\ f.kind # "rejects"
        /\ \A a \in StatementRecords(TRUE) : \A o1, o2 \in SomeOptions :
              Score(f, a, o1) = Score(f, a, o2)}

\* the result of the named probe once it has been produced: returned by the
\* probe's own method, or assigned to validation.independenceTests
Produced(method, name) ==
    IF caller = method /\ pc = "resolved" THEN result
    ELSE IF caller = "validateStatementIndependence"
         THEN validation.independenceTests[name]
         ELSE Undefined

\* C5: when a sub-probe of validateStatementIndependence fails, the
\* sub-probes that completed before it are still reported in what the caller
\* receives.
C5_CompletedProbesReported ==
    (pc = "rejected" /\ caller = "validateStatementIndependence")
        => \A i \in 1..Len(ProbeNames) :
              IsPresent(validation.independenceTests[ProbeNames[i]])
                  => /\ result.kind = "validation"
                     /\ result.independenceTests[ProbeNames[i]]
                            = validation.independenceTests[ProbeNames[i]]

C8_PositionScoringPassesAllProbes ==
    (/\ caller = "validateStatementIndependence"
     /\ pc \in {"resolved", "rejected"}
     /\ scoring.kind = "position"
     /\ statements # <<>> /\ UniqueIds(statements))
        => /\ pc = "resolved"
           /\ \A i \in 1..Len(ProbeNames) :
                 /\ result.independenceTests[ProbeNames[i]].independenceScore = Q(100)
                 /\ result.independenceTests[ProbeNames[i]].passed

\* the public method, the analysis maximum and the threshold of each probe
ProbeMethod(name) ==
    CASE name = "orderingIndependence" -> "testOrderingIndependence"
      [] name = "priorStatementInfluence" -> "testPriorStatementInfluence"
      [] name = "contextualIndependence" -> "testContextualIndependence"
      [] name = "batchProcessingIndependence" -> "testBatchProcessingIndependence"
      [] name = "temporalSequenceIndependence" -> "testTemporalSequenceIndependence"

ProbeMaximum(name, r) ==
    CASE name = "orderingIndependence" -> r.analysis.maxVariance
      [] name = "priorStatementInfluence" -> r.analysis.maxInfluence
      [] name = "contextualIndependence" -> r.analysis.maxContextualInfluence
      [] name = "batchProcessingIndependence" -> r.analysis.maxBatchVariance
      [] name = "temporalSequenceIndependence" -> r.analysis.maxSequenceVariance

ProbeThreshold(name) ==
    CASE name = "orderingIndependence" -> independenceThresholds.orderVariance
      [] name = "priorStatementInfluence" -> independenceThresholds.priorStatementInfluence
      [] name = "contextualIndependence" -> independenceThresholds.contextualBias
      [] name = "batchProcessingIndependence" ->
             independenceThresholds.batchProcessingVariance
      [] name = "temporalSequenceIndependence" ->
             independenceThresholds.temporalSequenceBias

\* the result of the named probe, however it was called, once produced
ProbeResult(name) == Produced(ProbeMethod(name), name)

\* C11: every probe result's independenceScore is a number in 0..100 equal
\* to max(0, 100 - (maximum / threshold) * 100), for every statement set the
\* probe is run on, the empty set and a single statement included.
C11_IndependenceScoreInRange ==
    \A i \in 1..Len(ProbeNames) :
       LET name == ProbeNames[i]
           r == ProbeResult(name)
       IN  IsPresent(r)
              => /\ r.independenceScore
                       = IndependenceScore(ProbeMaximum(name, r), ProbeThreshold(name))
                 /\ QGe(r.independenceScore, Q(0))
                 /\ QLe(r.independenceScore, Q(100))

\* C12: the passed of every probe result is true exactly when the analysis
\* maximum of the probe is at most the threshold configured for the probe.
C12_PassedIffMaximumWithinThreshold ==
    \A i \in 1..Len(ProbeNames) :
       LET name == ProbeNames[i]
           r == ProbeResult(name)
       IN  IsPresent(r)
              => (r.passed <=> QLe(ProbeMaximum(name, r), Q(ProbeThreshold(name))))

\* a batch of two scored 5 below the individual scores: above the threshold
\* of 4, and the probe did not pass
C12_Witness ==
    /\ caller = "testBatchProcessingIndependence" /\ pc = "resolved"
    /\ Len(statements) = 2
    /\ result.analysis.maxBatchVariance = Q(5)
    /\ ~result.passed

C17_EmptySetFailsFast ==
    (statements = <<>> /\ pc \in {"resolved", "rejected"})
        => /\ pc = "rejected"
           /\ result = [kind |-> "Error", message |-> "ConfigurationError"]
           /\ test = <<>>

-----------------------------------------------------------------------------
(* The scoring calls of testOrderingIndependence and of                    *)
(* testBatchProcessingIndependence, one await at a time.                   *)
(* test is the log of the calls issued, each                               *)
(*   [id, options, round, group, issued, completed, outcome]               *)
(* where round is the iteration (ordering) or the batch size, 0 for the    *)
(* individual scores (batch), group numbers the awaits, and issued and     *)
(* completed number the calls in the order they were issued and in the     *)
(* order they settled.  args is [group, scores]: the awaits done and the   *)
(* entries pushed so far.                                                  *)

MaxBatchStatements == 7

\* the statements s1, s2, ... of a call, with positions 10, 20, ...
CallStatements(n) == [i \in 1..n |-> [id |-> i, position |-> 10 * i, quote |-> TRUE]]

\* the error the scoring function rejects its k-th invocation with
Rejection(k) == [kind |-> "Error", message |-> "rejected", call |-> k]

IsRejection(outcome) == outcome.kind = "Error"

\* a scoring function that rejects its k-th invocation, one that rejects
\* every invocation from the k-th on (both return the position otherwise),
\* and one that returns the rank at which the call settled
CallScorers ==
    {[kind |-> kind, call |-> k] :
        kind \in {"rejectsAt", "rejectsFrom"}, k \in 1..(3 * MaxBatchStatements)}
    \cup {[kind |-> "completionOrder"]}

\* what the invocation issued as number issued and settled as number
\* completed gives
Invoke(f, issued, completed, statement) ==
    CASE f.kind = "rejectsAt" ->
             IF issued = f.call THEN Rejection(issued)
             ELSE [kind |-> "score", value |-> Q(statement.position)]
      [] f.kind = "rejectsFrom" ->
             IF issued >= f.call THEN Rejection(issued)
             ELSE [kind |-> "score", value |-> Q(statement.position)]
      [] OTHER -> [kind |-> "score", value |-> Q(completed)]

\* the orders shuffleArray leaves the statements in: as given, or reversed
CallShuffles(n) == {p \in Shuffles(n) : \A i \in 1..n : p[i] = i}
                   \cup {p \in Shuffles(n) : \A i \in 1..n : p[i] = n + 1 - i}

\* the orders in which the calls of one Promise.all may settle: as issued,
\* or the last one first
CompletionOrders(n) == {[i \in 1..n |-> i], [i \in 1..n |-> n + 1 - i]}

\* (the results in the order the promises settled)
InSettledOrder(outcomes, order) == [r \in 1..Len(outcomes) |-> outcomes[order[r]]]

\* await Promise.all(promises): the results in the order of the promises
PromiseAll(outcomes, order) == outcomes

\* the await throws when a promise of the group has rejected
Rejects(outcomes) == \E i \in 1..Len(outcomes) : IsRejection(outcomes[i])

\* (the await throws an error of its own)
WrappedError(calls) == Thrown

\* what the await throws: the rejection that settled first
FirstRejection(calls) ==
    calls[CHOOSE k \in 1..Len(calls) :
             /\ IsRejection(calls[k].outcome)
             /\ \A l \in 1..Len(calls) :
                    IsRejection(calls[l].outcome) => calls[k].completed <= calls[l].completed
         ].outcome

\* the calls of one await of the batch probe
BatchGroups(batches, size) ==
    [g \in 1..Len(batches) |->
        [k \in 1..Len(batches[g]) |->
            [statement |-> batches[g][k], options |-> BatchOptions(Len(batches[g])),
             round |-> size]]]

RECURSIVE BatchPlanFrom(_, _)
BatchPlanFrom(stmts, b) ==
    IF b > Len(batchSizes) THEN <<>>
    ELSE BatchGroups(createBatches(stmts, batchSizes[b]), batchSizes[b])
         \o BatchPlanFrom(stmts, b + 1)

\* the awaits of testBatchProcessingIndependence in order: one per statement
\* for the individual scores, then one per batch of every batch size
BatchPlan(stmts) ==
    [i \in 1..Len(stmts) |->
        <<[statement |-> stmts[i], options |-> BatchOptions(1), round |-> 0]>>]
    \o BatchPlanFrom(stmts, 1)

\* the entries pushed in the given round, as {id, score}
PushedIn(scores, round) ==
    LET pushed == SelectSeq(scores, LAMBDA e : e.round = round)
    IN  [k \in 1..Len(pushed) |-> [id |-> pushed[k].id, score |-> pushed[k].score]]

CallsInit ==
    /\ pc = "ready"
    /\ \E method \in {"testOrderingIndependence", "testBatchProcessingIndependence"} :
          /\ caller = method
          /\ statements \in {CallStatements(n) :
                                n \in 0..(IF method = "testOrderingIndependence"
                                          THEN MaxStatements ELSE MaxBatchStatements)}
    /\ scoring \in CallScorers
    /\ test = <<>>
    /\ args = [group |-> 0, scores |-> <<>>]
    /\ validation = Undefined /\ result = Undefined
    /\ analysis = NewAnalysis /\ lastBiasReport = Undefined /\ ran = <<>>
    /\ isInitialized = FALSE

\* the method is entered
EnterProbe ==
    /\ pc = "ready"
    /\ pc' = caller
    /\ UNCHANGED <<caller, statements, scoring, validation, test, result, pipelineVars, args>>

\* one await of the probe in progress: the calls of group are issued, they
\* settle in some order, and the await throws or the entries are pushed
Await(group) ==
    \E order \in CompletionOrders(Len(group)) :
       LET settled == [r \in 1..Len(group) |-> CHOOSE k \in 1..Len(group) : order[k] = r]
           calls == [k \in 1..Len(group) |->
                        [id |-> group[k].statement.id, options |-> group[k].options,
                         round |-> group[k].round, group |-> args.group + 1,
                         issued |-> Len(test) + k,
                         completed |-> Len(test) + settled[k],
                         outcome |-> Invoke(scoring, Len(test) + k, Len(test) + settled[k],
                                            group[k].statement)]]
           outcomes == [k \in 1..Len(group) |-> calls[k].outcome]
           scores == PromiseAll(outcomes, order)
       IN  /\ test' = test \o calls
           /\ IF Rejects(outcomes)
              THEN /\ pc' = "rejected" /\ result' = FirstRejection(calls)
                   /\ UNCHANGED args
              ELSE /\ args' = [group |-> args.group + 1,
                               scores |-> args.scores \o
                                   [k \in 1..Len(group) |->
                                       [id |-> group[k].statement.id, score |-> scores[k].value,
                                        round |-> group[k].round]]]
                   /\ UNCHANGED <<pc, result>>

\* testOrderingIndependence: the next scoring call, in the order shuffled for
\* its iteration
OrderingCall ==
    /\ pc = "testOrderingIndependence"
    /\ args.group < Iterations * Len(statements)
    /\ LET i == args.group \div Len(statements)
           j == args.group % Len(statements)
       IN  \E shuffle \in CallShuffles(Len(statements)) :
              /\ \A k \in 1..j : shuffle[k] = test[i * Len(statements) + k].id
              /\ Await(<<[statement |-> statements[shuffle[j + 1]],
                          options |-> IsolatedOptions, round |-> i]>>)
    /\ UNCHANGED <<caller, statements, scoring, validation, pipelineVars>>

\* testOrderingIndependence after its loops
OrderingReturn ==
    /\ pc = "testOrderingIndependence"
    /\ args.group = Iterations * Len(statements)
    /\ result' = OrderingResult(
                     [i \in 1..Iterations |->
                         [k \in 1..Len(statements) |->
                             FindById(PushedIn(args.scores, i - 1), statements[k].id)]],
                     statements)
    /\ pc' = "resolved"
    /\ UNCHANGED <<caller, statements, scoring, validation, test, pipelineVars, args>>

\* testBatchProcessingIndependence: the next await
BatchAwait ==
    /\ pc = "testBatchProcessingIndependence"
    /\ args.group < Len(BatchPlan(statements))
    /\ Await(BatchPlan(statements)[args.group + 1])
    /\ UNCHANGED <<caller, statements, scoring, validation, pipelineVars>>

\* testBatchProcessingIndependence after its loops
BatchReturn ==
    /\ pc = "testBatchProcessingIndependence"
    /\ args.group = Len(BatchPlan(statements))
    /\ LET individualScores == PushedIn(args.scores, 0)
           batchResults == [b \in 1..Len(batchSizes) |->
                               PushedIn(args.scores, batchSizes[b])]
           a == analyzeBatchProcessingVariance(individualScores, batchResults)
       IN  result' = [kind |-> "probe", testType |-> "batch_processing_independence",
                      individualScores |-> individualScores,
                      batchResults |-> batchResults,
                      analysis |-> a,
                      independenceScore |->
                          IndependenceScore(a.maxBatchVariance,
                                            independenceThresholds.batchProcessingVariance),
                      passed |-> passed(a.maxBatchVariance,
                                        independenceThresholds.batchProcessingVariance)]
    /\ pc' = "resolved"
    /\ UNCHANGED <<caller, statements, scoring, validation, test, pipelineVars, args>>

CallsNext == EnterProbe \/ OrderingCall \/ OrderingReturn \/ BatchAwait \/ BatchReturn

SpecCalls == CallsInit /\ [][CallsNext]_vars

\* C22: no retries.  Within a probe no scoring call is issued twice (one call
\* per statement and iteration, or per statement and batch size); once a call
\* has rejected the probe has ended by rejecting with the error of a rejected
\* call, no call was issued after the await that observed the rejection, no
\* score stands in for the rejected call, and no probe result is returned.
C22_NoRetries ==
    /\ \A k, l \in 1..Len(test) :
          k # l => ~(test[k].id = test[l].id /\ test[k].round = test[l].round)
    /\ \A k \in 1..Len(test) :
          IsRejection(test[k].outcome)
             => /\ pc = "rejected"
                /\ \E l \in 1..Len(test) :
                      IsRejection(test[l].outcome) /\ result = test[l].outcome
                /\ \A l \in 1..Len(test) : test[l].group <= test[k].group
                /\ \A e \in 1..Len(args.scores) :
                      ~(args.scores[e].id = test[k].id
                        /\ args.scores[e].round = test[k].round)
    /\ pc = "rejected" => \E k \in 1..Len(test) : IsRejection(test[k].outcome)
    /\ pc = "resolved" => result.kind = "probe"

\* a batch of several statements whose first call rejected: the later calls of
\* the batch were issued all the same, and the probe rejected with that error
C22_Witness ==
    /\ pc = "rejected"
    /\ caller = "testBatchProcessingIndependence"
    /\ \E k, l \in 1..Len(test) :
          /\ IsRejection(test[k].outcome) /\ result = test[k].outcome
          /\ ~IsRejection(test[l].outcome)
          /\ test[l].group = test[k].group /\ test[l].issued > test[k].issued

\* the calls issued for the batch size n, in the order they were issued
RoundCalls(n) == SelectSeq(test, LAMBDA c : c.round = n)

\* the batch probe has returned, and for every batch size n: the calls were
\* issued one per statement in the order of the list, in contiguous batches
\* of exactly n statements except possibly the last, every call carried the
\* given batchSize option, and batchResults[n] holds one entry per statement
\* with the score its own call returned
BatchProbeSplits(nominal) ==
    (pc = "resolved" /\ caller = "testBatchProcessingIndependence")
       => \A b \in 1..Len(batchSizes) :
             LET n == batchSizes[b]
                 calls == RoundCalls(n)
                 size(i) == Cardinality({j \in 1..Len(calls) : calls[j].group = calls[i].group})
             IN  /\ Len(calls) = Len(statements)
                 /\ \A i \in 1..Len(calls) :
                       /\ calls[i].id = statements[i].id
                       /\ i < Len(calls) => calls[i].group <= calls[i + 1].group
                       /\ size(i) <= n
                       /\ calls[i].group # calls[Len(calls)].group => size(i) = n
                       /\ calls[i].options.batchSize = (IF nominal THEN n ELSE size(i))
                 /\ Len(result.batchResults[b]) = Len(statements)
                 /\ \A i \in 1..Len(statements) :
                       /\ result.batchResults[b][i].id = statements[i].id
                       /\ result.batchResults[b][i].score = calls[i].outcome.value

\* C23 as stated: the batch probe splits the list into contiguous batches in
\* order, scores every statement with options.batchSize = n, the batch size
\* of the round, and records for every statement the score of its own call.
C23_BatchSizeIsNominal == BatchProbeSplits(TRUE)

\* C23: the batch probe splits the list into contiguous batches in order
\* (every batch but possibly the last has exactly n statements), scores every
\* statement with options.batchSize = the length of the batch it is in, and
\* batchResults[n] holds one entry per statement with the score returned by
\* the call issued for it, in whatever order the calls of a batch settle.
C23_BatchSizeIsBatchLength == BatchProbeSplits(FALSE)

\* seven statements, so that the batches of five are of five and two; a batch
\* settled last call first, with scores that depend on the order of settling
C23_Witness ==
    /\ pc = "resolved" /\ caller = "testBatchProcessingIndependence"
    /\ Len(statements) = 7
    /\ scoring.kind = "completionOrder"
    /\ \E k, l \in 1..Len(test) :
          /\ test[k].round = 5 /\ test[l].round = 5
          /\ test[k].options.batchSize = 5 /\ test[l].options.batchSize = 2
          /\ test[k].issued < test[l].issued
          /\ \A c \in 1..Len(test) :
                (test[c].group = test[k].group /\ test[c].issued > test[k].issued)
                   => test[c].completed < test[k].completed

-----------------------------------------------------------------------------
(* StatementIndependenceQC.calculateOverallIndependenceScore, called on    *)
(* the independenceTests of a validation object.                           *)

\* the weights of calculateOverallIndependenceScore, in hundredths
independenceWeights ==
    [orderingIndependence |-> 25, priorStatementInfluence |-> 20,
     contextualIndependence |-> 20, batchProcessingIndependence |-> 20,
     temporalSequenceIndependence |-> 15]

\* (a probe that is missing still adds its weight)
AddProbeFullWeight(acc, probe, weight) ==
    [weightedScore |-> IF IsPresent(probe)
                       THEN QAdd(acc.weightedScore,
                                 QMul(probe.independenceScore, Q(weight)))
                       ELSE acc.weightedScore,
     totalWeight |-> acc.totalWeight + weight]

\* weightedScore and totalWeight after the callback of forEach for one probe
AddProbe(acc, probe, weight) ==
    IF IsPresent(probe)
    THEN [weightedScore |-> QAdd(acc.weightedScore,
                                 QMul(probe.independenceScore, Q(weight))),
          totalWeight |-> acc.totalWeight + weight]
    ELSE acc

RECURSIVE AddProbes(_, _, _)
AddProbes(acc, independenceTests, names) ==
    IF names = <<>> THEN acc
    ELSE AddProbes(AddProbe(acc, independenceTests[Head(names)],
                            independenceWeights[Head(names)]),
                   independenceTests, Tail(names))

calculateOverallIndependenceScore(independenceTests) ==
    LET sums == AddProbes([weightedScore |-> Q(0), totalWeight |-> 0],
                          independenceTests, ProbeNames)
    IN  IF sums.totalWeight > 0
        THEN QDiv(sums.weightedScore, Q(sums.totalWeight)) ELSE Q(0)

\* the independence scores a probe result may carry
IndependenceScoreLevels == {Q(0)} \cup ScoreLevels

ProbeInputs == {[kind |-> "probe", independenceScore |-> s] : s \in IndependenceScoreLevels}

OverallInit ==
    /\ pc = "ready"
    /\ caller = "none"
    /\ validation \in
          {[NewValidation EXCEPT !.independenceTests = t] :
              t \in [DOMAIN NoProbes -> ProbeInputs \cup {Undefined}]}
    /\ statements = <<>> /\ scoring = Undefined /\ test = <<>>
    /\ result = Undefined
    /\ analysis = NewAnalysis /\ lastBiasReport = Undefined /\ ran = <<>>
    /\ isInitialized = FALSE /\ args = <<>>

\* validation.overallIndependenceScore =
\*     this.calculateOverallIndependenceScore(validation.independenceTests)
OverallIndependenceScore ==
    /\ pc = "ready"
    /\ validation' =
          [validation EXCEPT !.overallIndependenceScore =
                                 calculateOverallIndependenceScore(validation.independenceTests)]
    /\ pc' = "resolved"
    /\ UNCHANGED <<caller, statements, scoring, test, result, pipelineVars, args>>

SpecOverall == OverallInit /\ [][OverallIndependenceScore]_vars

\* the probes whose result is present in independenceTests
PresentProbes(t) == {name \in DOMAIN t : IsPresent(t[name])}

\* the sum of weight * score over the present probes
PresentWeightedSum(t) ==
    SumOver(PresentProbes(t),
            [name \in PresentProbes(t) |->
                QMul(Q(independenceWeights[name]), t[name].independenceScore)])

-----------------------------------------------------------------------------
(* The probes of StatementIndependenceQC called one after the other on the *)
(* same statements, identifyCriticalIndependenceIssues and                 *)
(* calculateOverallIndependenceScore on the results they returned, and     *)
(* generateOverallAssessment on the validation made of these.  A probe     *)
(* that throws leaves no result.  args is the probes called so far.        *)

\* the results of the ten iterations of testOrderingIndependence: the
\* statements as given in one iteration and shuffled in the next
OrderingRuns(stmts, f, shuffle) ==
    [i \in 1..Iterations |->
        LET scores == IterationScores(stmts, f, IF i % 2 = 0 THEN shuffle
                                                ELSE [k \in 1..Len(stmts) |-> k])
        IN  [k \in 1..Len(stmts) |-> FindScore(scores, stmts[k].id)]]

\* what the named probe returns or throws
RunProbe(name, stmts, f, shuffle) ==
    CASE name = "orderingIndependence" ->
             IF HasThrown([i \in 1..Len(stmts) |-> Score(f, stmts[i], IsolatedOptions)])
             THEN Thrown
             ELSE OrderingResult(OrderingRuns(stmts, f, shuffle), stmts)
      [] name = "priorStatementInfluence" -> testPriorStatementInfluence(stmts, f)
      [] name = "contextualIndependence" -> testContextualIndependence(stmts, f)
      [] name = "batchProcessingIndependence" -> testBatchProcessingIndependence(stmts, f)
      [] name = "temporalSequenceIndependence" ->
             testTemporalSequenceIndependence(stmts, f, shuffle)

\* if (!testResult.passed)
IsIssue(testResult) == ~testResult.passed

RECURSIVE IssuesOf(_, _)
IssuesOf(independenceTests, names) ==
    IF names = <<>> THEN <<>>
    ELSE LET testResult == independenceTests[Head(names)]
         IN  (IF IsPresent(testResult) /\ IsIssue(testResult)
              THEN <<[testType |-> Head(names),
                      severity |-> IF QLt(testResult.independenceScore, Q(60))
                                   THEN "critical" ELSE "warning",
                      independenceScore |-> testResult.independenceScore]>>
              ELSE <<>>)
             \o IssuesOf(independenceTests, Tail(names))

\* the issues, each {testType, severity, independenceScore}, in the order of
\* the keys of independenceTests
identifyCriticalIndependenceIssues(independenceTests) ==
    IssuesOf(independenceTests, ProbeNames)

IssuesInit ==
    /\ pc = "probing"
    /\ caller = "none"
    /\ statements \in StatementSets
    /\ scoring \in ScoringFunctions
    /\ validation = NewValidation
    /\ args = 0
    /\ test = <<>> /\ result = Undefined
    /\ analysis = NewAnalysis /\ lastBiasReport = Undefined /\ ran = <<>>
    /\ isInitialized = FALSE

\* the next probe is called; its result is kept unless it throws
CallProbe ==
    /\ pc = "probing"
    /\ args < Len(ProbeNames)
    /\ \E shuffle \in CallShuffles(Len(statements)) :
          LET name == ProbeNames[args + 1]
              r == RunProbe(name, statements, scoring, shuffle)
          IN  validation' = IF r.kind = "Error" THEN validation
                            ELSE [validation EXCEPT !.independenceTests[name] = r]
    /\ args' = args + 1
    /\ UNCHANGED <<pc, caller, statements, scoring, test, result, pipelineVars>>

\* validation.overallIndependenceScore and validation.criticalIssues
IdentifyIssues ==
    /\ pc = "probing"
    /\ args = Len(ProbeNames)
    /\ validation' =
          [validation EXCEPT
              !.overallIndependenceScore =
                  calculateOverallIndependenceScore(validation.independenceTests),
              !.criticalIssues =
                  identifyCriticalIndependenceIssues(validation.independenceTests)]
    /\ pc' = "validated"
    /\ UNCHANGED <<caller, statements, scoring, test, result, pipelineVars, args>>

\* generateOverallAssessment on tests whose independenceValidation is the
\* validation
AssessValidation ==
    /\ pc = "validated"
    /\ LET tests == [NoTests EXCEPT !.independenceValidation = validation]
       IN  analysis' = [analysis EXCEPT
                           !.tests = tests,
                           !.overallAssessment = generateOverallAssessment(tests)]
    /\ pc' = "assessed"
    /\ UNCHANGED <<caller, lastBiasReport, qcVars, isInitialized, ran, result>>

IssuesNext == CallProbe \/ IdentifyIssues \/ AssessValidation

SpecIssues == IssuesInit /\ [][IssuesNext]_vars

-----------------------------------------------------------------------------
(* AdvancedBiasAnalytics.detectPartyBias.                                  *)
(* A statement is [topic, party, position]; party "" is an unset party.    *)

MaxPartyStatements == 2

Topics == {"t", "u"}

PartyStatementRecords ==
    [topic : Topics, party : {"Democratic", "Republican", ""}, position : {60, 80}]

PartyStatementSets == SeqsUpTo(PartyStatementRecords, MaxPartyStatements)

\* [...new Set(statements.map(s => s.topic))]
TopicsOf(stmts) ==
    LET firsts == SelectSeq([i \in 1..Len(stmts) |-> i],
                            LAMBDA i : \A j \in 1..(i - 1) : stmts[j].topic # stmts[i].topic)
    IN  [k \in 1..Len(firsts) |-> stmts[firsts[k]].topic]

\* groupStatementsByParty(statements)[party]
PartyGroup(stmts, party) ==
    SelectSeq(stmts, LAMBDA x : (IF x.party = "" THEN "Independent" ELSE x.party) = party)

\* demStatements.map(s => s.position || s.score), positions being non-zero
PartyScores(stmts) == [i \in 1..Len(stmts) |-> Q(stmts[i].position)]

\* the object literal computes the means, their difference, the effect size,
\* the tests and the variances, then calls this.assessPartyBiasSignificance,
\* a method the class does not define
analyzePartyDifferences(demStatements, repStatements) == TypeError

\* the error marker for an empty party, else the tests, then
\* this.calculateConfidenceInterval, a method the class does not define
performPartyBiasStatistics(stmts) ==
    IF Len(PartyGroup(stmts, "Democratic")) = 0 \/ Len(PartyGroup(stmts, "Republican")) = 0
    THEN [kind |-> "statistics", error |-> "Insufficient data for party comparison"]
    ELSE TypeError

\* this.calculatePartyBiasIndicators, a method the class does not define
calculatePartyBiasIndicators(partyComparison) == TypeError

PartyInit ==
    /\ pc = "ready"
    /\ caller = "none"
    /\ statements \in PartyStatementSets
    /\ scoring = Undefined /\ validation = Undefined
    /\ test = <<>>
    /\ result = Undefined
    /\ analysis = NewAnalysis /\ lastBiasReport = Undefined /\ ran = <<>>
    /\ isInitialized = FALSE /\ args = <<>>

CallDetectPartyBias ==
    /\ pc = "ready"
    /\ caller' = "detectPartyBias"
    /\ pc' = "topics"
    /\ UNCHANGED <<statements, scoring, validation, test, result, pipelineVars, args>>

\* one pass of "for (const topic of topics)"; test holds analysis.partyComparison
PartyTopic ==
    /\ pc = "topics"
    /\ Len(ran) < Len(TopicsOf(statements))
    /\ LET topic == TopicsOf(statements)[Len(ran) + 1]
           topicStatements == SelectSeq(statements, LAMBDA x : x.topic = topic)
           dem == PartyGroup(topicStatements, "Democratic")
           rep == PartyGroup(topicStatements, "Republican")
           comparison == analyzePartyDifferences(dem, rep)
       IN  /\ ran' = Append(ran, topic)
           /\ IF Len(dem) > 0 /\ Len(rep) > 0
              THEN IF comparison.kind = "Error"
                   THEN pc' = "rejected" /\ result' = comparison /\ UNCHANGED test
                   ELSE /\ test' = Append(test, [topic |-> topic, comparison |-> comparison])
                        /\ UNCHANGED <<pc, result>>
              ELSE UNCHANGED <<pc, result, test>>
    /\ UNCHANGED <<caller, statements, scoring, validation, analysis, lastBiasReport,
                   isInitialized, args>>

\* after the loop: statisticalTests, biasIndicators, return
PartyAssessment ==
    /\ pc = "topics"
    /\ Len(ran) = Len(TopicsOf(statements))
    /\ LET statisticalTests == performPartyBiasStatistics(statements)
           biasIndicators == calculatePartyBiasIndicators(test)
       IN  IF statisticalTests.kind = "Error"
           THEN pc' = "rejected" /\ result' = statisticalTests
           ELSE IF biasIndicators.kind = "Error"
                THEN pc' = "rejected" /\ result' = biasIndicators
                ELSE /\ pc' = "resolved"
                     /\ result' = [kind |-> "partyBias", partyComparison |-> test,
                                   statisticalTests |-> statisticalTests,
                                   biasIndicators |-> biasIndicators]
    /\ UNCHANGED <<caller, statements, scoring, validation, test, pipelineVars, args>>

PartyNext == CallDetectPartyBias \/ PartyTopic \/ PartyAssessment

SpecParty == PartyInit /\ [][PartyNext]_vars

\* the topics of the statements that have a statement of each of the two parties
TwoPartyTopics ==
    {topic \in Topics :
        /\ \E i \in 1..Len(statements) :
              statements[i].topic = topic /\ statements[i].party = "Democratic"
        /\ \E i \in 1..Len(statements) :
              statements[i].topic = topic /\ statements[i].party = "Republican"}

\* C9: for every topic with a Democratic and a Republican statement,
\* detectPartyBias reports scoreDifference = mean(Democratic scores) -
\* mean(Republican scores), a difference above 10 in absolute value being
\* the significant one (20 for the scenario of positions 80 and 60).
C9_PartyDifferenceReported ==
    (/\ caller = "detectPartyBias"
     /\ pc \in {"resolved", "rejected"}
     /\ TwoPartyTopics # {})
        => /\ pc = "resolved"
           /\ \A topic \in TwoPartyTopics :
                 \E k \in 1..Len(result.partyComparison) :
                    /\ result.partyComparison[k].topic = topic
                    /\ LET of(party) ==
                               PartyScores(PartyGroup(
                                   SelectSeq(statements, LAMBDA x : x.topic = topic), party))
                           difference == QSub(calculateMean(of("Democratic")),
                                              calculateMean(of("Republican")))
                       IN  /\ result.partyComparison[k].comparison.scoreDifference
                                  = difference
                           /\ result.partyComparison[k].comparison.significant
                                  = QGt(QAbs(difference), Q(10))

-----------------------------------------------------------------------------
(* AdvancedBiasAnalytics.calculateSourceBiasRisk.                          *)
(* The statements are those of one source, each [position, source].        *)

MaxSourceStatements == 6

SourceNames == {"Science Journal", "Partisan Daily", "Party News", "LIBERAL Post"}

\* the characters of a source name
Spelling(name) ==
    CASE name = "Science Journal" ->
             <<"S", "c", "i", "e", "n", "c", "e", " ", "J", "o", "u", "r", "n", "a", "l">>
      [] name = "Partisan Daily" ->
             <<"P", "a", "r", "t", "i", "s", "a", "n", " ", "D", "a", "i", "l", "y">>
      [] name = "Party News" ->
             <<"P", "a", "r", "t", "y", " ", "N", "e", "w", "s">>
      [] name = "LIBERAL Post" ->
             <<"L", "I", "B", "E", "R", "A", "L", " ", "P", "o", "s", "t">>

biasedKeywords ==
    <<<<"p", "a", "r", "t", "i", "s", "a", "n">>,
      <<"c", "o", "n", "s", "e", "r", "v", "a", "t", "i", "v", "e">>,
      <<"l", "i", "b", "e", "r", "a", "l">>,
      <<"p", "r", "o", "g", "r", "e", "s", "s", "i", "v", "e">>,
      <<"a", "c", "t", "i", "v", "i", "s", "t">>>>

\* (the name as it is written)
AsWritten(text) == text

\* sourceName.toLowerCase()
LowerCased(text) == [i \in 1..Len(text) |-> toLowerCase(text[i])]

\* text.includes(keyword)
TextIncludes(text, keyword) ==
    \E start \in 0..(Len(text) - Len(keyword)) :
       \A i \in 1..Len(keyword) : text[start + i] = keyword[i]

\* the names whose lower-cased text includes one of the biasedKeywords
BiasedSourceNames ==
    {name \in SourceNames :
        \E k \in 1..Len(biasedKeywords) :
           TextIncludes(LowerCased(Spelling(name)), biasedKeywords[k])}

\* the statements of one source; the scores in ascending order, as the
\* variance, the mean and the range do not depend on the order
SourceStatementSets ==
    UNION {{s \in SeqsUpTo([position : {10, 50, 60, 90}, source : {name}],
                           MaxSourceStatements) :
               /\ s # <<>>
               /\ \A i \in 1..(Len(s) - 1) : s[i].position <= s[i + 1].position}
           : name \in SourceNames}

\* scores.length >= 5
FromFiveScores(scores) == Len(scores) >= 5

\* scores.length > 5
MoreThanFiveScores(scores) == Len(scores) > 5

calculateSourceBiasRisk(scores, sourceName) ==
    LET variance == calculateVariance(scores)
        mean == calculateMean(scores)
        range == QSub(MathMax(scores), MathMin(scores))
        riskFactors ==
            (IF QLt(variance, Q(5)) /\ MoreThanFiveScores(scores)
             THEN <<"suspiciously_low_variance">> ELSE <<>>)
            \o (IF QLt(mean, Q(20)) \/ QGt(mean, Q(80))
                THEN <<"extreme_mean_score">> ELSE <<>>)
            \o (IF QLt(range, Q(15)) /\ MoreThanFiveScores(scores)
                THEN <<"limited_score_range">> ELSE <<>>)
            \o (IF sourceName \in BiasedSourceNames
                THEN <<"potentially_biased_source_name">> ELSE <<>>)
    IN  [kind |-> "biasRisk",
         riskLevel |-> IF Len(riskFactors) > 2 THEN "high"
                       ELSE IF Len(riskFactors) > 0 THEN "medium" ELSE "low",
         riskFactors |-> riskFactors,
         riskScore |-> IF Len(riskFactors) * 25 < 100 THEN Len(riskFactors) * 25 ELSE 100]

RiskInit ==
    /\ pc = "ready"
    /\ caller = "none"
    /\ statements \in SourceStatementSets
    /\ scoring = Undefined /\ validation = Undefined
    /\ test = <<>>
    /\ result = Undefined
    /\ analysis = NewAnalysis /\ lastBiasReport = Undefined /\ ran = <<>>
    /\ isInitialized = FALSE /\ args = <<>>

\* calculateSourceBiasRisk(scores, sourceName) as analyzeSourceBias calls it
SourceBiasRisk ==
    /\ pc = "ready"
    /\ caller' = "calculateSourceBiasRisk"
    /\ result' = calculateSourceBiasRisk([i \in 1..Len(statements) |->
                                             Q(statements[i].position)],
                                         statements[1].source)
    /\ pc' = "resolved"
    /\ UNCHANGED <<statements, scoring, validation, test, pipelineVars, args>>

SpecRisk == RiskInit /\ [][SourceBiasRisk]_vars

Includes(seq, x) == \E i \in 1..Len(seq) : seq[i] = x

\* the risk of a source has been computed from n statements, all scoring 50
AllFifty(n) ==
    /\ pc = "resolved" /\ caller = "calculateSourceBiasRisk"
    /\ Len(statements) = n
    /\ \A i \in 1..Len(statements) : statements[i].position = 50

\* C10 as stated: a source with exactly 5 statements all scoring 50 has the
\* risk factor suspiciously_low_variance, not extreme_mean_score, and
\* riskLevel medium.
C10_FiveEqualScoresMediumRisk ==
    AllFifty(5)
        => /\ Includes(result.riskFactors, "suspiciously_low_variance")
           /\ ~Includes(result.riskFactors, "extreme_mean_score")
           /\ result.riskLevel = "medium"

\* C10 amended: the low-variance rule needs more than 5 scores.  With exactly
\* 5 statements all scoring 50 the risk factors include neither
\* suspiciously_low_variance nor extreme_mean_score, and riskLevel is low for a
\* source name without biased keyword; with 6 such statements they include
\* suspiciously_low_variance and limited_score_range, not extreme_mean_score,
\* and riskLevel is medium for such a name.
C10_LowVarianceNeedsSixScores ==
    /\ AllFifty(5)
           => /\ ~Includes(result.riskFactors, "suspiciously_low_variance")
              /\ ~Includes(result.riskFactors, "extreme_mean_score")
              /\ statements[1].source \notin BiasedSourceNames
                     => result.riskFactors = <<>> /\ result.riskLevel = "low"
    /\ AllFifty(6)
           => /\ Includes(result.riskFactors, "suspiciously_low_variance")
              /\ Includes(result.riskFactors, "limited_score_range")
              /\ ~Includes(result.riskFactors, "extreme_mean_score")
              /\ statements[1].source \notin BiasedSourceNames
                     => result.riskLevel = "medium"

C10_Witness ==
    /\ AllFifty(5)
    /\ statements[1].source = "Science Journal"
    /\ result.riskLevel = "low"

\* the number of times the token is in the risk factors
TimesIn(seq, x) == Cardinality({i \in 1..Len(seq) : seq[i] = x})

\* C25: the risk factors hold each of the four tokens once when its heuristic
\* holds and not at all otherwise: variance < 5 with more than 5 scores; mean
\* < 20 or > 80; range < 15 with more than 5 scores; a source name with one of
\* the five keywords, in whatever case.  riskLevel is high for more than two
\* factors, medium for one or two and low for none; riskScore is
\* min(100, 25 * factors).
C25_RiskFactorsByHeuristic ==
    (pc = "resolved" /\ caller = "calculateSourceBiasRisk")
       => LET scores == [i \in 1..Len(statements) |-> Q(statements[i].position)]
              low == {statements[i].position : i \in 1..Len(statements)}
              lowVariance == QLt(calculateVariance(scores), Q(5)) /\ Len(scores) > 5
              extremeMean == \/ QLt(calculateMean(scores), Q(20))
                             \/ QGt(calculateMean(scores), Q(80))
              limitedRange ==
                  /\ \A a, b \in low : a - b < 15
                  /\ Len(scores) > 5
              biasedName == statements[1].source \in {"Partisan Daily", "LIBERAL Post"}
              factors == result.riskFactors
              holds(b) == IF b THEN 1 ELSE 0
          IN  /\ TimesIn(factors, "suspiciously_low_variance") = holds(lowVariance)
              /\ TimesIn(factors, "extreme_mean_score") = holds(extremeMean)
              /\ TimesIn(factors, "limited_score_range") = holds(limitedRange)
              /\ TimesIn(factors, "potentially_biased_source_name") = holds(biasedName)
              /\ Len(factors) = holds(lowVariance) + holds(extremeMean)
                                + holds(limitedRange) + holds(biasedName)
              /\ result.riskLevel = (CASE Len(factors) > 2 -> "high"
                                       [] Len(factors) \in {1, 2} -> "medium"
                                       [] OTHER -> "low")
              /\ result.riskScore = (IF 25 * Len(factors) > 100 THEN 100
                                     ELSE 25 * Len(factors))

\* six scores of 10 from a source whose name has a keyword in capitals: all
\* four factors, high risk, riskScore 100
C25_Witness ==
    /\ pc = "resolved" /\ caller = "calculateSourceBiasRisk"
    /\ Len(statements) = 6
    /\ statements[1].source = "LIBERAL Post"
    /\ Len(result.riskFactors) = 4
    /\ result.riskLevel = "high" /\ result.riskScore = 100

-----------------------------------------------------------------------------
(* StatisticalTestSuite.welchTTest.  args is <<sample1, sample2>>.         *)
(* Math.sqrt is not evaluated: a quotient by a square root that is neither *)
(* 0 nor a division by 0 is kept as [numerator, radicand] and compared by  *)
(* its square.                                                             *)

MaxSampleSize == 3

SampleValues == {50, 54}

Samples == SeqsUpTo({Q(v) : v \in SampleValues}, MaxSampleSize) \ {<<>>}

\* StatisticalTestSuite.calculateVariance: no guard on the length
StatisticalTestSuite_calculateVariance(values) ==
    LET mean == QDiv(ReduceSum(values), Q(Len(values)))
    IN  QDiv(ReduceSum([i \in 1..Len(values) |->
                           QMul(QSub(values[i], mean), QSub(values[i], mean))]),
             Q(Len(values)))

\* numerator / Math.sqrt(radicand)
OverSqrt(numerator, radicand) ==
    IF radicand = Q(0) THEN QDiv(numerator, Q(0))
    ELSE IF numerator = Q(0) THEN Q(0)
    ELSE [kind |-> "overSqrt", numerator |-> numerator, radicand |-> radicand]

\* Math.abs(t) > limit
AbsGreater(t, limit) ==
    IF "kind" \in DOMAIN t
    THEN QGt(QMul(t.numerator, t.numerator), QMul(QMul(limit, limit), t.radicand))
    ELSE QGt(QAbs(t), limit)

\* tDistributionPValue(Math.abs(t), df), in thousandths
tDistributionPValue(t, df) ==
    IF AbsGreater(t, Q(2)) THEN 25
    ELSE IF AbsGreater(t, Norm(1645, 1000)) THEN 50
    ELSE 100

welchTTest(sample1, sample2) ==
    LET mean1 == QDiv(ReduceSum(sample1), Q(Len(sample1)))
        mean2 == QDiv(ReduceSum(sample2), Q(Len(sample2)))
        var1 == StatisticalTestSuite_calculateVariance(sample1)
        var2 == StatisticalTestSuite_calculateVariance(sample2)
        n1 == Len(sample1)
        n2 == Len(sample2)
        q1 == QDiv(var1, Q(n1))
        q2 == QDiv(var2, Q(n2))
        tStatistic == OverSqrt(QSub(mean1, mean2), QAdd(q1, q2))
        df == QDiv(QMul(QAdd(q1, q2), QAdd(q1, q2)),
                   QAdd(QDiv(QMul(q1, q1), Q(n1 - 1)), QDiv(QMul(q2, q2), Q(n2 - 1))))
    IN  [kind |-> "tTest",
         tStatistic |-> tStatistic,
         degreesOfFreedom |-> df,
         pValue |-> tDistributionPValue(tStatistic, df),
         significant |-> tDistributionPValue(tStatistic, df) < 50]

TTestInit ==
    /\ pc = "ready"
    /\ caller = "none"
    /\ args \in {<<sample1, sample2>> : sample1 \in Samples, sample2 \in Samples}
    /\ statements = <<>> /\ scoring = Undefined /\ validation = Undefined /\ test = <<>>
    /\ result = Undefined
    /\ analysis = NewAnalysis /\ lastBiasReport = Undefined /\ ran = <<>>
    /\ isInitialized = FALSE

WelchTTest ==
    /\ pc = "ready"
    /\ result' = welchTTest(args[1], args[2])
    /\ pc' = "resolved"
    /\ UNCHANGED <<caller, statements, scoring, validation, test, pipelineVars, args>>

SpecTTest == TTestInit /\ [][WelchTTest]_vars

\* C20: welchTTest(A, A) returns tStatistic = 0 and significant = false for
\* every sample A of two elements or more, samples whose values are all
\* equal included.
C20_IdenticalSamplesGiveZero ==
    (pc = "resolved" /\ args[1] = args[2] /\ Len(args[1]) >= 2)
        => (result.tStatistic = Q(0) /\ ~result.significant)

-----------------------------------------------------------------------------
(* AdvancedBiasAnalytics.groupBySementicSimilarity, one statement of the   *)
(* loop at a time.  A quote is the sequence of the pieces that             *)
(* split(/\s+/) cuts it into; result is the groups in the order of their   *)
(* keys group_1, group_2, ...; args is the number of statements done.      *)

MaxClusterStatements == 4

\* the quotes: three words; the same with a fourth; three of these four;
\* the first again in another order, with a word twice; and the empty string
Quotes ==
    {<<"a", "b", "c">>, <<"A", "b", "c", "d">>, <<"a", "b", "d">>,
     <<"c", "B", "a", "a">>, <<"">>}

ClusterStatements ==
    UNION {{[i \in 1..n |-> [id |-> i, quote |-> quotes[i], topic |-> "topic"]] :
               quotes \in [1..n -> Quotes]} : n \in 0..MaxClusterStatements}

\* new Set(text.toLowerCase().split(/\s+/))
WordSet(text) == {toLowerCase(text[i]) : i \in 1..Len(text)}

calculateTextSimilarity(text1, text2) ==
    LET words1 == WordSet(text1)
        words2 == WordSet(text2)
    IN  QDiv(Q(Cardinality(words1 \cap words2)), Q(Cardinality(words1 \cup words2)))

\* similarity > 0.7
Similar(text1, text2) == QGt(calculateTextSimilarity(text1, text2), QDiv(Q(7), Q(10)))

\* (the group takes the quote of the statement that joins as representative)
JoinAndRepresent(group, statement) ==
    [group EXCEPT !.statements = Append(@, statement), !.representative = statement.quote]

\* group.statements.push(statement)
Join(group, statement) == [group EXCEPT !.statements = Append(@, statement)]

\* the body of the loop over the statements: the groups after the statement
AssignToGroup(groups, statement) ==
    IF \E g \in 1..Len(groups) : Similar(statement.quote, groups[g].representative)
    THEN LET first == CHOOSE g \in 1..Len(groups) :
                         /\ Similar(statement.quote, groups[g].representative)
                         /\ \A h \in 1..(g - 1) :
                               ~Similar(statement.quote, groups[h].representative)
         IN  [groups EXCEPT ![first] = Join(@, statement)]
    ELSE Append(groups, [representative |-> statement.quote, topic |-> statement.topic,
                         statements |-> <<statement>>])

ClusterInit ==
    /\ pc = "groupBySementicSimilarity"
    /\ caller = "none"
    /\ statements \in ClusterStatements
    /\ result = <<>>
    /\ args = 0
    /\ scoring = Undefined /\ validation = Undefined /\ test = <<>>
    /\ analysis = NewAnalysis /\ lastBiasReport = Undefined /\ ran = <<>>
    /\ isInitialized = FALSE

\* one turn of for (const statement of statements)
GroupStatement ==
    /\ pc = "groupBySementicSimilarity"
    /\ args < Len(statements)
    /\ result' = AssignToGroup(result, statements[args + 1])
    /\ args' = args + 1
    /\ UNCHANGED <<pc, caller, statements, scoring, validation, test, pipelineVars>>

\* return groups
ReturnGroups ==
    /\ pc = "groupBySementicSimilarity"
    /\ args = Len(statements)
    /\ pc' = "resolved"
    /\ UNCHANGED <<caller, statements, scoring, validation, test, result, pipelineVars, args>>

ClusterNext == GroupStatement \/ ReturnGroups

SpecCluster == ClusterInit /\ [][ClusterNext]_vars

\* the places <<g, k>> where the statement with the given id is a member
PlacesOf(id) ==
    {p \in UNION {{<<g, k>> : k \in 1..Len(result[g].statements)} : g \in 1..Len(result)} :
        result[p[1]].statements[p[2]].id = id}

\* C24: after every statement processed, each processed statement is in
\* exactly one cluster and no other statement is in any, no cluster is empty,
\* members are in input order, the representative is the quote of the first
\* member, and every statement is in the earliest-created cluster whose first
\* member's quote has similarity > 0.7 with its own, or else seeds a cluster.
C24_GreedyFirstMatchPartition ==
    /\ \A i \in 1..Len(statements) :
          Cardinality(PlacesOf(statements[i].id)) = (IF i <= args THEN 1 ELSE 0)
    /\ \A g \in 1..Len(result) :
          LET members == result[g].statements
          IN  /\ members # <<>>
              /\ \A k \in 1..Len(members) : members[k] = statements[members[k].id]
              /\ \A k \in 1..(Len(members) - 1) : members[k].id < members[k + 1].id
              /\ result[g].representative = members[1].quote
              /\ g > 1 => result[g - 1].statements[1].id < members[1].id
              /\ \A k \in 1..Len(members) :
                    /\ k > 1 => Similar(members[k].quote, members[1].quote)
                    /\ \A h \in 1..(g - 1) :
                          ~Similar(members[k].quote, result[h].statements[1].quote)

\* a statement similar to the second member of the first cluster, but not to
\* its first member, has seeded a second cluster
C24_Witness ==
    /\ pc = "resolved"
    /\ Len(result) = 2
    /\ Len(result[1].statements) >= 2
    /\ Similar(result[2].statements[1].quote, result[1].statements[2].quote)
    /\ ~Similar(result[2].statements[1].quote, result[1].statements[1].quote)

-----------------------------------------------------------------------------
(* BiasDetectionSystem.performStatementCrossValidation, one candidate of   *)
(* its loop at a time.  statements holds the statement; args is            *)
(* [candidates, done]; test is the log of the scoring calls, each          *)
(* [candidate, returned]; result is the testResult, its                    *)
(* crossValidationScores in the order of their keys.  The quote of a       *)
(* statement is the name it mentions.                                      *)

MaxCandidates == 3

Candidates == {[name |-> "A", party |-> "D"], [name |-> "B", party |-> "R"],
               [name |-> "C", party |-> "D"]}

\* the candidates argument: candidates of different names
CandidateLists ==
    {c \in SeqsUpTo(Candidates, MaxCandidates) :
        \A i, j \in 1..Len(c) : c[i].name = c[j].name => i = j}

CrossStatements ==
    {[id |-> "s1", candidate |-> c.name, party |-> c.party, position |-> p, quote |-> q] :
        c \in Candidates, p \in {0, 50}, q \in {"A", "nobody"}}

\* scoring functions: the position; the position, less 15 for party R; and
\* one that returns 10 more on each call
CrossScorers == {[kind |-> k] : k \in {"position", "byParty", "perCall"}}

\* scoringFunction(statement), calls being the number of calls made before
CrossScore(f, statement, calls) ==
    CASE f.kind = "position" -> Q(statement.position)
      [] f.kind = "byParty" ->
             Q(statement.position - (IF statement.party = "R" THEN 15 ELSE 0))
      [] f.kind = "perCall" -> Q(statement.position + 10 * (calls + 1))

\* quote.replace(new RegExp(statement.candidate, 'g'), candidate.name)
Replaced(quote, from, to) == IF quote = from THEN to ELSE quote

\* {...statement, candidate: candidate.name, party: candidate.party, quote: ...}
modifiedStatement(statement, candidate) ==
    [statement EXCEPT !.candidate = candidate.name, !.party = candidate.party,
                      !.quote = Replaced(statement.quote, statement.candidate,
                                         candidate.name)]

analyzeCrossValidationBias(testResult) ==
    LET scoreDifferences ==
            [k \in 1..Len(testResult.crossValidationScores) |->
                testResult.crossValidationScores[k].scoreDifference]
    IN  [maxScoreDifference |-> MathMax(scoreDifferences),
         consistencyRating |-> QMax(Q(0), QSub(Q(100), MathMax(scoreDifferences))),
         biasDetected |-> QGt(MathMax(scoreDifferences), Q(10))]

CrossInit ==
    /\ pc = "performStatementCrossValidation"
    /\ caller = "none"
    /\ \E statement \in CrossStatements :
          /\ statements = <<statement>>
          /\ result = [kind |-> "testResult", statementId |-> statement.id,
                       originalCandidate |-> statement.candidate,
                       originalScore |-> statement.position,
                       crossValidationScores |-> <<>>,
                       biasAnalysis |-> Undefined]
    /\ \E candidates \in CandidateLists : args = [candidates |-> candidates, done |-> 0]
    /\ scoring \in CrossScorers
    /\ test = <<>>
    /\ validation = Undefined
    /\ analysis = NewAnalysis /\ lastBiasReport = Undefined /\ ran = <<>>
    /\ isInitialized = FALSE

\* one turn of for (const candidate of candidates)
CrossValidateCandidate ==
    /\ pc = "performStatementCrossValidation"
    /\ args.done < Len(args.candidates)
    /\ LET statement == statements[1]
           candidate == args.candidates[args.done + 1]
           modified == modifiedStatement(statement, candidate)
           first == CrossScore(scoring, modified, Len(test))
           second == CrossScore(scoring, modified, Len(test) + 1)
       IN  IF candidate.name # statement.candidate
           THEN /\ test' = test \o <<[candidate |-> candidate.name, returned |-> first],
                                     [candidate |-> candidate.name, returned |-> second]>>
                /\ result' = [result EXCEPT !.crossValidationScores =
                                 Append(@, [candidate |-> candidate.name,
                                            score |-> first,
                                            party |-> candidate.party,
                                            scoreDifference |->
                                                QAbs(QSub(second, Q(statement.position)))])]
           ELSE UNCHANGED <<test, result>>
    /\ args' = [args EXCEPT !.done = @ + 1]
    /\ UNCHANGED <<pc, caller, statements, scoring, validation, pipelineVars>>

\* testResult.biasAnalysis = this.analyzeCrossValidationBias(testResult)
CrossAnalysis ==
    /\ pc = "performStatementCrossValidation"
    /\ args.done = Len(args.candidates)
    /\ result' = [result EXCEPT !.biasAnalysis = analyzeCrossValidationBias(result)]
    /\ pc' = "resolved"
    /\ UNCHANGED <<caller, statements, scoring, validation, test, pipelineVars, args>>

CrossNext == CrossValidateCandidate \/ CrossAnalysis

SpecCross == CrossInit /\ [][CrossNext]_vars

\* C29: every entry of crossValidationScores has scoreDifference =
\* |score - statement.position| for its own score, and the scoring function
\* has been called once for every entry, whatever the scoring function, one
\* that returns another value on every call included.
C29_DifferenceOfRecordedScore ==
    /\ \A k \in 1..Len(result.crossValidationScores) :
          LET entry == result.crossValidationScores[k]
          IN  entry.scoreDifference
                 = QAbs(QSub(entry.score, Q(statements[1].position)))
    /\ Len(test) = Len(result.crossValidationScores)

-----------------------------------------------------------------------------
(* The score a statement contributes: s.position || s.score in             *)
(* analyzePartyDifferences, analyzeSourceBias and prepareTimeSeriesData,   *)
(* statement.position || statement.expectedScore || 50 in the scoring      *)
(* function of the integration.  A statement is [position, score], score   *)
(* Undefined when it has no score field; the statements are dated, in the  *)
(* order of their dates.  test holds the scores the method mapped the      *)
(* statements to, result what it returned.                                 *)

MaxZeroStatements == 3

ZeroStatements ==
    SeqsUpTo([position : {0, 50, 100}, score : {Undefined, Q(30)}], MaxZeroStatements)
    \ {<<>>}

\* s.position || s.score
positionOrScore(s) == IF s.position # 0 THEN Q(s.position) ELSE s.score

\* statements.map(s => s.position || s.score)
MappedScores(stmts) == [i \in 1..Len(stmts) |-> positionOrScore(stmts[i])]

\* a value as a number: undefined is NaN
ToNumber(v) == IF v = Undefined THEN NaN ELSE v

ZeroInit ==
    /\ pc = "ready"
    /\ caller = "none"
    /\ statements \in ZeroStatements
    /\ test = <<>>
    /\ result = Undefined
    /\ scoring = Undefined /\ validation = Undefined
    /\ analysis = NewAnalysis /\ lastBiasReport = Undefined /\ ran = <<>>
    /\ isInitialized = FALSE /\ args = <<>>

\* analyzePartyDifferences(demStatements, ...): the scores and the mean are
\* computed, then this.assessPartyBiasSignificance, which no file defines,
\* is called
AnalyzePartyDifferences ==
    /\ pc = "ready"
    /\ caller' = "analyzePartyDifferences"
    /\ test' = MappedScores(statements)
    /\ result' = TypeError
    /\ pc' = "resolved"
    /\ UNCHANGED <<statements, scoring, validation, pipelineVars, args>>

\* analyzeSourceBias(sourceStatements, sourceName): the scores and the mean
\* are computed, then this.calculateSourceQualityMetrics, which no file
\* defines, is called
AnalyzeSourceBias ==
    /\ pc = "ready"
    /\ caller' = "analyzeSourceBias"
    /\ test' = MappedScores(statements)
    /\ result' = TypeError
    /\ pc' = "resolved"
    /\ UNCHANGED <<statements, scoring, validation, pipelineVars, args>>

\* prepareTimeSeriesData(statements): the entries, and the mean
\* analyzeOverallTemporalTrend takes of their scores
PrepareTimeSeriesData ==
    /\ pc = "ready"
    /\ caller' = "prepareTimeSeriesData"
    /\ test' = MappedScores(statements)
    /\ result' = [kind |-> "timeSeries",
                  avgScore |-> calculateMean([i \in 1..Len(statements) |->
                                                 ToNumber(MappedScores(statements)[i])])]
    /\ pc' = "resolved"
    /\ UNCHANGED <<statements, scoring, validation, pipelineVars, args>>

\* the scoring function of createScoringFunction on the first statement,
\* isolated, with Math.random() giving 0.5 (no variance added)
ScoreStatement ==
    /\ pc = "ready"
    /\ caller' = "scoringFunction"
    /\ test' = <<>>
    /\ result' = createScoringFunction(
                     [position |-> statements[1].position, expectedScore |-> 0,
                      party |-> "Independent", quote |-> Undefined],
                     [isolated |-> TRUE, anonymized |-> FALSE], Norm(1, 2))
    /\ pc' = "resolved"
    /\ UNCHANGED <<statements, scoring, validation, pipelineVars, args>>

ZeroNext ==
    \/ AnalyzePartyDifferences \/ AnalyzeSourceBias \/ PrepareTimeSeriesData
    \/ ScoreStatement

SpecZero == ZeroInit /\ [][ZeroNext]_vars

\* C30: a statement with no score field contributes its position to the
\* party, source and temporal statistics, position 0 included, and the
\* scoring function takes the position as base score, 0 included: isolated
\* and with no variance it returns the position.
C30_ZeroIsAScore ==
    pc = "resolved"
       => /\ \A i \in 1..Len(test) :
                statements[i].score = Undefined => test[i] = Q(statements[i].position)
          /\ caller = "scoringFunction" => result = Q(statements[1].position)
          /\ (caller = "prepareTimeSeriesData"
              /\ \A i \in 1..Len(statements) : statements[i].score = Undefined)
                => result.avgScore
                      = calculateMean([i \in 1..Len(statements) |->
                                          Q(statements[i].position)])

=============================================================================
